---- MODULE Spec2Model ----
(***************************************************************************)
(* Media ingestion, transcription, recording counters, upload/sync and     *)
(* download of the "enjoy" application (main process).                     *)
(*                                                                         *)
(* The module holds several state machines over one set of variables, one  *)
(* per component; each has its own specification:                          *)
(*   SpecTranscription  Transcription.process and its four callers         *)
(*   SpecRestart        the same, with restarts of the application         *)
(*   SpecIngest         Audio/Video.buildFromLocalFile and destroy         *)
(*   SpecRecording      Recording create/destroy and the counter hooks     *)
(*   SpecSync           upload and sync of one Audio, Video or Recording   *)
(*   SpecDownload       the Downloader: download, cancel, cancelAll        *)
(*   SpecAssess         Recording.assess                                   *)
(*   SpecRegistry       update/destroy handlers, hooks, domain events      *)
(*   SpecEvents         the downloader with its progress reports           *)
(*   SpecConversation   the conversation page: submit, resend, ask         *)
(*   SpecWatchdog       the same, time passing and due timers firing       *)
(*   SpecLogin          the login form and its browser view                *)
(*   SpecTable          the transcriptions table under findOrCreate        *)
(*   SpecBackground     the after-create tasks of an asset, run fairly     *)
(***************************************************************************)
EXTENDS Integers, Sequences, FiniteSets, TLC

(***************************************************************************)
(* Bounds of the model.                                                    *)
(***************************************************************************)
\* number of handler invocations / timers on the one Transcription record
MaxCalls == 3
\* number of buildFromLocalFile calls that may be under way at once
MaxIngests == 1
\* number of Recording rows ever created
MaxRecs == 2
\* number of sync() / upload() invocations on the one asset
MaxSyncCalls == 2
\* the clock's last millisecond
MaxTime == 3
\* number of Downloader.download calls
MaxDownloads == 2

\* number of Recording.assess calls
MaxAssess == 3

\* number of domain events sent to the window
MaxEvents == 2

\* number of "updated" events with state progressing
MaxProgress == 1

\* number of webApi.auth calls of a login form
MaxAuths == 2

\* number of handleSubmit calls of a conversation page
MaxAsks == 3

\* number of Transcription.findOrCreate calls
MaxFinds == 3

VARIABLES
    \* ---- Transcription (transcription.ts) ----
    state,       \* the row's `state` column; "absent" while no row exists
    instState,   \* in-memory `state` of the instance a call loaded or created
    calls,       \* the invocations: handler calls and the after-create timer
    sttCalls,    \* number of whisper.transcribe invocations issued so far
    trSyncedAt,  \* the row's syncedAt: 0 for null, else how often it was written
    trResult,    \* the row's result: 0 for null, else the call that produced it
    \* ---- library: audios and videos (audio.ts, video.ts) ----
    files,       \* the file at each library path: "absent", "ok" or "partial"
    rows,        \* the audios/videos tables: the row's extname per <<kind, md5>>
    ing,         \* the buildFromLocalFile calls
    userId,      \* settings "user.id"
    ids,         \* the id column of each row
    \* ---- recordings of one Audio and one Video (audio.ts 360-641) ----
    recs,               \* the recordings table
    recordingsCount,    \* the column of the Audio row and of the Video row
    recordingsDuration, \* the column of the Audio row and of the Video row
    hooks,              \* progress of each recording's two counter hooks
    \* ---- upload and sync of one asset (audio.ts 140-167, 443-472) ----
    asset,       \* "none", or the model of the row: "Audio", "Video", "Recording"
    now,         \* the clock, in milliseconds (new Date())
    updatedAt,   \* the row's columns; 0 stands for null
    syncedAt,
    uploadedAt,
    name,        \* the row's name column
    sy,          \* the sync() and upload() invocations
    transcribeTimer, \* the timer of Audio.transcribeAsync: none, armed, fired
    \* ---- Downloader (video.ts 356-456) ----
    dls,         \* the download() calls: their listener and their promise
    items,       \* the DownloadItem each call's downloadURL produced
    tasks,       \* Downloader.tasks
    disk,        \* what is at each save path
    req,         \* the download-cancel / download-cancel-all message in flight
    ack,         \* the request whose reply to the renderer is in flight
    sent,        \* per item, the states sent as "download-on-state"
    \* ---- Recording.assess of one Recording (audio.ts 474-512) ----
    assessments,  \* number of PronunciationAssessment rows of the Recording
    assessCalls,  \* the assess() calls
    speechTokens, \* number of webApi.generateSpeechToken requests
    sdkCalls,     \* number of sdk.pronunciationAssessment requests
    \* ---- one row, its handlers and its hooks (audios-handler.ts, part_001) ----
    win,         \* mainWindow.win is set
    regModel,    \* "none", or the model of the row
    reg,         \* the row's columns
    regFile,     \* the row's file: "absent" or "present"
    remote,      \* what the remote service holds: the blob, the metadata
    bg,          \* the tasks started by the AfterCreate hooks
    events,      \* the "db-on-transaction" messages sent to the window
    out,         \* the last request: its notification and its result
    unhandled,   \* a promise rejected with nothing handling it
    \* ---- the transcriptions table (transcription.ts 21-58) ----
    trRows,      \* the rows
    finds,       \* the Transcription.findOrCreate calls
    \* ---- the conversation page (conversation.tsx) ----
    submitting,  \* the submitting flag
    msgs,        \* per request, the status of its message in the list
    asks,        \* per request, the conversations.ask call
    timers,      \* per request, the setTimeout of handleSubmit
    age,         \* per request, the time since its timer was set
    \* ---- the login form (login-form.tsx) ----
    endpoint,    \* the endpoint state of the form
    loaded,      \* app.apiUrl() has resolved
    view,        \* the browser view: "none", "shown" or "hidden"
    auths,       \* the webApi.auth calls, in order
    user,        \* the user passed to login(), "none" before
    toasts       \* the description of the last toast

trVars == <<state, instState, calls, sttCalls, trSyncedAt, trResult>>

libVars == <<files, rows, ing, userId, ids>>

recVars == <<recs, recordingsCount, recordingsDuration, hooks>>

syncVars == <<asset, now, updatedAt, syncedAt, uploadedAt, name, sy, transcribeTimer>>

dlVars == <<dls, items, tasks, disk, req, ack, sent>>

assessVars == <<assessments, assessCalls, speechTokens, sdkCalls>>

regVars == <<win, regModel, reg, regFile, remote, bg, events, out, unhandled>>

tabVars == <<trRows, finds>>

convVars == <<submitting, msgs, asks, timers, age>>

loginVars == <<endpoint, loaded, view, auths, user, toasts>>

\* what the actions of one component leave alone: the other components
notTranscription == <<libVars, recVars, syncVars, dlVars, assessVars, regVars, tabVars, convVars, loginVars>>
notLibrary == <<trVars, recVars, syncVars, dlVars, assessVars, regVars, tabVars, convVars, loginVars>>
notRecording == <<trVars, libVars, syncVars, dlVars, assessVars, regVars, tabVars, convVars, loginVars>>
notSync == <<trVars, libVars, recVars, dlVars, assessVars, regVars, tabVars, convVars, loginVars>>
notDownload == <<trVars, libVars, recVars, syncVars, assessVars, regVars, tabVars, convVars, loginVars>>
notAssess == <<trVars, libVars, recVars, syncVars, dlVars, regVars, tabVars, convVars, loginVars>>
notRegistry == <<trVars, libVars, recVars, syncVars, dlVars, assessVars, tabVars, convVars, loginVars>>
notTable == <<trVars, libVars, recVars, syncVars, dlVars, assessVars, regVars, convVars, loginVars>>
notLogin == <<trVars, libVars, recVars, syncVars, dlVars, assessVars, regVars, tabVars, convVars>>
notConversation == <<trVars, libVars, recVars, syncVars, dlVars, assessVars, regVars, tabVars, loginVars>>

vars == <<state, instState, calls, sttCalls, trSyncedAt, trResult,
          files, rows, ing, userId, ids,
          recs, recordingsCount, recordingsDuration, hooks,
          asset, now, updatedAt, syncedAt, uploadedAt, name, sy, transcribeTimer,
          dls, items, tasks, disk, req, ack, sent,
          assessments, assessCalls, speechTokens, sdkCalls,
          win, regModel, reg, regFile, remote, bg, events, out, unhandled,
          trRows, finds,
          submitting, msgs, asks, timers, age,
          endpoint, loaded, view, auths, user, toasts>>

(***************************************************************************)
(* Transcription                                                           *)
(*                                                                         *)
(* One Transcription row of one existing Audio.  A call is an invocation   *)
(* of one of the entry points; instance i is the Sequelize instance that   *)
(* call i got from the database (findOrCreate / findOne).  The after-      *)
(* create timer works on the instance that was created, so it shares the   *)
(* creating call's instance.  Model.update(values) sets the in-memory      *)
(* values synchronously and writes the row; the write is taken as one step *)
(* with the call.                                                          *)
(***************************************************************************)
Call == 1..MaxCalls

States == {"pending", "processing", "finished"}

\* entry points: the AfterCreate hook, TranscriptionsHandler.findOrCreate,
\* Audio/Video.transcribe, TranscriptionsHandler.process
Kinds == {"hook", "findOrCreate", "transcribe", "process"}

FreeCall == [pc |-> "free", inst |-> 0, force |-> FALSE, kind |-> "hook", targetType |-> "Audio", reply |-> "none"]

Free == {c \in Call : calls[c].pc = "free"}

\* the slot a new invocation takes: slots are handed out in order
NextFree == CHOOSE c \in Free : \A d \in Free : c <= d

\* number of speech-to-text invocations in flight
InFlight == Cardinality({c \in Call : calls[c].pc = "whisper"})

InitTranscription ==
    /\ state = "absent"
    /\ instState = [c \in Call |-> "none"]
    /\ calls = [c \in Call |-> FreeCall]
    /\ sttCalls = 0
    /\ trSyncedAt = 0
    /\ trResult = 0

\* process() without the guard of lines 79-81
ProcessEntryNoGuard(c, i, f, k, st) ==
    [pc |-> "lookup", inst |-> i, force |-> f, kind |-> k, targetType |-> "Audio", reply |-> "none"]

\* Transcription.process, lines 79-81: the guard on the in-memory state.  The
\* call passes it and suspends at `await Audio.findByPk`, or returns at once.
ProcessEntry(c, i, f, k, st) ==
    IF st[i] = "processing"
    THEN [pc |-> "ended", inst |-> i, force |-> f, kind |-> k, targetType |-> "Audio", reply |-> "none"]
    ELSE [pc |-> "lookup", inst |-> i, force |-> f, kind |-> k, targetType |-> "Audio", reply |-> "none"]

\* Model.findOrCreate({where: {targetId, targetType}, defaults}) run by call c
\* for kind k: the row is read, or created in state pending, in which case the
\* AfterCreate hook startTranscribeAsync arms a timer on the created instance.
FindOrCreate(c, k) ==
    IF state = "absent"
    THEN /\ Cardinality(Free) >= 2
         /\ LET h == CHOOSE d \in Free \ {c} : \A e \in Free \ {c} : d <= e
            IN calls' = [calls EXCEPT
                   ![c] = [pc |-> "loaded", inst |-> c, force |-> FALSE, kind |-> k, targetType |-> "Audio", reply |-> "none"],
                   ![h] = [pc |-> "timer", inst |-> c, force |-> FALSE, kind |-> "hook", targetType |-> "Audio", reply |-> "none"]]
         /\ state' = "pending"
         /\ instState' = [instState EXCEPT ![c] = "pending"]
    ELSE /\ calls' = [calls EXCEPT
                   ![c] = [pc |-> "loaded", inst |-> c, force |-> FALSE, kind |-> k, targetType |-> "Audio", reply |-> "none"]]
         /\ instState' = [instState EXCEPT ![c] = state]
         /\ UNCHANGED state

\* TranscriptionsHandler.findOrCreate, the database part
HandlerFindOrCreate ==
    /\ Free # {}
    /\ FindOrCreate(NextFree, "findOrCreate")
    /\ UNCHANGED <<sttCalls, trSyncedAt, trResult>>
    /\ UNCHANGED notTranscription

\* TranscriptionsHandler.findOrCreate after the await: process() if pending,
\* not awaited, and the handler returns the record to the requester
HandlerFindOrCreateThen(c) ==
    /\ calls[c].pc = "loaded" /\ calls[c].kind = "findOrCreate"
    /\ calls' = [calls EXCEPT ![c] =
           IF instState[c] = "pending"
           THEN [ProcessEntry(c, c, FALSE, "findOrCreate", instState)
                    EXCEPT !.reply = "record"]
           ELSE [@ EXCEPT !.pc = "ended", !.reply = "record"]]
    /\ UNCHANGED <<state, instState, sttCalls, trSyncedAt, trResult>>
    /\ UNCHANGED notTranscription

\* Audio.transcribe / Video.transcribe, the database part
AssetTranscribe ==
    /\ Free # {}
    /\ FindOrCreate(NextFree, "transcribe")
    /\ UNCHANGED <<sttCalls, trSyncedAt, trResult>>
    /\ UNCHANGED notTranscription

\* the .then with a finished record re-processed without force
AssetTranscribeThenNoForce(c) ==
    /\ calls[c].pc = "loaded" /\ calls[c].kind = "transcribe"
    /\ calls' = [calls EXCEPT ![c] =
           IF instState[c] \in {"pending", "finished"}
           THEN ProcessEntry(c, c, FALSE, "transcribe", instState)
           ELSE [@ EXCEPT !.pc = "ended"]]
    /\ UNCHANGED <<state, instState, sttCalls, trSyncedAt, trResult>>
    /\ UNCHANGED notTranscription

\* Audio.transcribe / Video.transcribe, the .then: the re-entry policy
AssetTranscribeThen(c) ==
    /\ calls[c].pc = "loaded" /\ calls[c].kind = "transcribe"
    /\ calls' = [calls EXCEPT ![c] =
           CASE instState[c] = "pending" ->
                    ProcessEntry(c, c, FALSE, "transcribe", instState)
             [] instState[c] = "finished" ->
                    ProcessEntry(c, c, TRUE, "transcribe", instState)
             [] OTHER -> [@ EXCEPT !.pc = "ended"]]
    /\ UNCHANGED <<state, instState, sttCalls, trSyncedAt, trResult>>
    /\ UNCHANGED notTranscription

\* TranscriptionsHandler.process: findOne, then process({force: true});
\* without a row the handler reports notFound and ends
HandlerProcess ==
    /\ Free # {}
    /\ LET c == NextFree IN
         IF state = "absent"
         THEN /\ calls' = [calls EXCEPT ![c] =
                      [pc |-> "ended", inst |-> c, force |-> TRUE, kind |-> "process",
                       targetType |-> "Audio", reply |-> "error"]]
              /\ UNCHANGED instState
         ELSE /\ calls' = [calls EXCEPT ![c] =
                      [pc |-> "loaded", inst |-> c, force |-> TRUE, kind |-> "process", targetType |-> "Audio", reply |-> "none"]]
              /\ instState' = [instState EXCEPT ![c] = state]
    /\ UNCHANGED <<state, sttCalls, trSyncedAt, trResult>>
    /\ UNCHANGED notTranscription

\* the .then of findOne (part_001 81-86): process({force: true}) is called and
\* not awaited; the callback returns and the handler's promise resolves
HandlerProcessThen(c) ==
    /\ calls[c].pc = "loaded" /\ calls[c].kind = "process"
    /\ calls' = [calls EXCEPT ![c] =
           [ProcessEntry(c, c, TRUE, "process", instState) EXCEPT !.reply = "resolved"]]
    /\ UNCHANGED <<state, instState, sttCalls, trSyncedAt, trResult>>
    /\ UNCHANGED notTranscription

\* Transcription.startTranscribeAsync: the timer fires, process() without force
\* on the created instance
StartTranscribeAsync(c) ==
    /\ calls[c].pc = "timer"
    /\ calls' = [calls EXCEPT ![c] =
           ProcessEntry(c, calls[c].inst, FALSE, "hook", instState)]
    /\ UNCHANGED <<state, instState, sttCalls, trSyncedAt, trResult>>
    /\ UNCHANGED notTranscription

\* Transcription.process, lines 85-108: the target's file path is found, the
\* row is updated to processing and whisper.transcribe is invoked
ProcessStart(c) ==
    /\ calls[c].pc = "lookup"
    /\ calls' = [calls EXCEPT ![c].pc = "whisper"]
    /\ instState' = [instState EXCEPT ![calls[c].inst] = "processing"]
    /\ state' = "processing"
    /\ sttCalls' = sttCalls + 1
    /\ UNCHANGED <<trSyncedAt, trResult>>
    /\ UNCHANGED notTranscription

\* Transcription.process, lines 109-117: the call returned; update to finished
\* with the new result; the update's .then is still to run
TranscribeOk(c) ==
    /\ calls[c].pc = "whisper"
    /\ calls' = [calls EXCEPT ![c].pc = "saved"]
    /\ instState' = [instState EXCEPT ![calls[c].inst] = "finished"]
    /\ state' = "finished"
    /\ trResult' = c
    /\ UNCHANGED <<sttCalls, trSyncedAt>>
    /\ UNCHANGED notTranscription

\* .then(() => this.sync()) (line 115) and Transcription.sync, lines 70-72:
\* nothing unless the instance's state is finished, else
\* webApi.syncTranscription is called
TranscriptionSync(c) ==
    /\ calls[c].pc = "saved"
    /\ calls' = [calls EXCEPT ![c].pc =
                    IF instState[calls[c].inst] = "finished" THEN "syncing" ELSE "ended"]
    /\ UNCHANGED <<state, instState, sttCalls, trSyncedAt, trResult>>
    /\ UNCHANGED notTranscription

\* Transcription.sync, lines 73-75: the call resolved, update({syncedAt})
\* writes that column of the row
SyncTranscriptionOk(c) ==
    /\ calls[c].pc = "syncing"
    /\ calls' = [calls EXCEPT ![c].pc = "ended"]
    /\ trSyncedAt' = trSyncedAt + 1
    /\ UNCHANGED <<state, instState, sttCalls, trResult>>
    /\ UNCHANGED notTranscription

\* the rejection of sync() taken for a failure of the attempt: the row goes
\* back to pending
SyncTranscriptionFailRollsBack(c) ==
    /\ calls[c].pc = "syncing"
    /\ calls' = [calls EXCEPT ![c].pc = "failed"]
    /\ instState' = [instState EXCEPT ![calls[c].inst] = "pending"]
    /\ state' = "pending"
    /\ UNCHANGED <<sttCalls, trSyncedAt, trResult>>
    /\ UNCHANGED notTranscription

\* the call rejected: nothing is written.  The promise of update().then is
\* not awaited by process() (line 115), which has returned by then.
SyncTranscriptionFail(c) ==
    /\ calls[c].pc = "syncing"
    /\ calls' = [calls EXCEPT ![c].pc = "syncFailed"]
    /\ UNCHANGED <<state, instState, sttCalls, trSyncedAt, trResult>>
    /\ UNCHANGED notTranscription

\* TranscriptionsHandler.findOrCreate with a targetType other than "Audio" and
\* "Video" (part_001 10-18): the handler throws invalidTargetType before
\* findOrCreate and reports it
HandlerFindOrCreateInvalid ==
    /\ Free # {}
    /\ calls' = [calls EXCEPT ![NextFree] =
           [pc |-> "invalidTargetType", inst |-> NextFree, force |-> FALSE,
            kind |-> "findOrCreate", targetType |-> "Other", reply |-> "error"]]
    /\ UNCHANGED <<state, instState, sttCalls, trSyncedAt, trResult>>
    /\ UNCHANGED notTranscription

\* TranscriptionsHandler.process with such a targetType in `where` (part_001
\* 75-84): no row has it, findOne gives null, the handler throws notFound
HandlerProcessInvalid ==
    /\ Free # {}
    /\ calls' = [calls EXCEPT ![NextFree] =
           [pc |-> "notFound", inst |-> NextFree, force |-> TRUE,
            kind |-> "process", targetType |-> "Other", reply |-> "error"]]
    /\ UNCHANGED <<state, instState, sttCalls, trSyncedAt, trResult>>
    /\ UNCHANGED notTranscription

\* TranscribeFail without the catch block's update: the bug of an attempt that
\* leaves the row in processing
TranscribeFailNoRollback(c) ==
    /\ calls[c].pc = "whisper"
    /\ calls' = [calls EXCEPT ![c].pc = "failed"]
    /\ UNCHANGED <<state, instState, sttCalls, trSyncedAt, trResult>>
    /\ UNCHANGED notTranscription

\* Transcription.process, lines 118-129: the attempt threw; update to pending
\* and re-throw
TranscribeFail(c) ==
    /\ calls[c].pc = "whisper"
    /\ calls' = [calls EXCEPT ![c].pc = "failed"]
    /\ instState' = [instState EXCEPT ![calls[c].inst] = "pending"]
    /\ state' = "pending"
    /\ UNCHANGED <<sttCalls, trSyncedAt, trResult>>
    /\ UNCHANGED notTranscription

NextTranscription ==
    \/ HandlerFindOrCreate
    \/ AssetTranscribe
    \/ HandlerProcess
    \/ \E c \in Call : HandlerFindOrCreateThen(c)
    \/ \E c \in Call : AssetTranscribeThen(c)
    \/ \E c \in Call : HandlerProcessThen(c)
    \/ \E c \in Call : StartTranscribeAsync(c)
    \/ \E c \in Call : ProcessStart(c)
    \/ \E c \in Call : TranscribeOk(c)
    \/ \E c \in Call : TranscribeFail(c)
    \/ \E c \in Call : TranscriptionSync(c)
    \/ \E c \in Call : SyncTranscriptionOk(c)
    \/ \E c \in Call : SyncTranscriptionFail(c)
    \/ HandlerFindOrCreateInvalid
    \/ HandlerProcessInvalid

\* The application quits while an attempt is running and is started again:
\* the timers, the instances and the calls in flight are gone, the row is as
\* the last UPDATE left it.  (A restart in another state leaves a row that the
\* calls treat as they treat it without a restart.)
Restart ==
    /\ state = "processing"
    /\ \E c \in Call : calls[c].pc # "free"
    /\ calls' = [c \in Call |-> FreeCall]
    /\ instState' = [c \in Call |-> "none"]
    /\ UNCHANGED <<state, sttCalls, trSyncedAt, trResult>>
    /\ UNCHANGED notTranscription

\* the calls of the transcription component, with restarts
NextRestart ==
    \/ NextTranscription
    \/ Restart

(***************************************************************************)
(* Library: Audio.buildFromLocalFile, Video.buildFromLocalFile, destroy    *)
(*                                                                         *)
(* A source file is its content (md5) and its extension.  The library path *)
(* of a copy is <userData>/<audios|videos>/<md5><ext>, here <<kind, md5,   *)
(* ext>>.  The audios and videos tables are unique on md5 (and on the id   *)
(* derived from it), so a table holds at most one row per md5; the row     *)
(* keeps the extension in metadata.extname, from which filePath is built.  *)
(***************************************************************************)
Ing == 1..MaxIngests

\* the md5 values of the source files' contents
Hash == {"abc123", "def456"}

AudioFormats == {"mp3"}

VideoFormats == {"mp4"}

Ext == AudioFormats \cup VideoFormats \cup {"txt"}

Kind == {"Audio", "Video"}

\* the kind whose table and directory a supported extension belongs to
KindOf(e) == IF e \in VideoFormats THEN "Video" ELSE "Audio"

\* the source files a caller may hand in: content and extension
Source == {<<"abc123", "mp3">>, <<"def456", "mp3">>, <<"abc123", "mp4">>,
           <<"abc123", "txt">>}

Supported == {s \in Source : s[2] \in AudioFormats \cup VideoFormats}

Path == {<<KindOf(s[2]), s[1], s[2]>> : s \in Supported}

Row == {<<KindOf(s[2]), s[1]>> : s \in Supported}

\* Audio.filePath / Video.filePath of the row <<k, h>>
FilePath(k, h) == <<k, h, rows[<<k, h>>]>>

\* the longest chain of calls between the two classes that is followed
MaxHops == 2

\* the format check of Video without the hand-over to Audio
FormatCheckNoHandOver(entry, e) ==
    IF entry = "Audio"
    THEN IF e \in VideoFormats THEN "Video"
         ELSE IF e \notin AudioFormats THEN "unsupported" ELSE "take"
    ELSE IF e \notin VideoFormats THEN "unsupported" ELSE "take"

\* the format check of class `entry` (audio.ts 234-240, video.ts 256-262): the
\* file is handed to the other class, refused, or taken
FormatCheck(entry, e) ==
    IF entry = "Audio"
    THEN IF e \in VideoFormats THEN "Video"
         ELSE IF e \notin AudioFormats THEN "unsupported" ELSE "take"
    ELSE IF e \in AudioFormats THEN "Audio"
         ELSE IF e \notin VideoFormats THEN "unsupported" ELSE "take"

\* where a call that entered at class `entry` ends: the class that takes the
\* file and the number of hand-overs, "unsupported", or "loop" when the
\* classes keep handing the file to each other
RECURSIVE Route(_, _, _)
Route(entry, e, hops) ==
    LET c == FormatCheck(entry, e)
    IN  IF c = "take" THEN [kind |-> entry, hops |-> hops]
        ELSE IF c = "unsupported" THEN [kind |-> "unsupported", hops |-> hops]
        ELSE IF hops >= MaxHops THEN [kind |-> "loop", hops |-> hops]
        ELSE Route(c, e, hops + 1)

\* a call: `entry` is the class whose method was called, `kind` the class
\* that took the file; `known` tells whether the table held a row with the
\* file's md5 when the call began.  A call that failed keeps its error only.
FreeIng ==
    [pc |-> "free", hash |-> "abc123", ext |-> "txt", error |-> "none",
     known |-> FALSE, entry |-> "Audio", kind |-> "Audio"]

\* the users that may be logged in (settings "user.id")
User == {"u1", "u2"}

\* the values the column default UUIDV4 may draw
Random == {"r1", "r2"}

NoId == [version |-> 0, name |-> <<>>]

\* @Default(DataType.UUIDV4): a random version 4 id
UuidV4(r) == [version |-> 4, name |-> <<r>>]

\* uuidv5(`${userId}/${md5}`, uuidv5.URL): a version 5 id is determined by its
\* name and nothing else
UuidV5(u, md5) == [version |-> 5, name |-> <<u, "/", md5>>]

\* this.build({md5, ...}): the record with the default id
Build(md5, r) == [md5 |-> md5, id |-> UuidV4(r)]

\* a BeforeCreate hook that leaves the id as built
KeepDefaultAttributes(record, u) == record

\* the BeforeCreate hook setupDefaultAttributes (audio.ts 169-183, video.ts
\* 190-204): the id is replaced whether or not the metadata could be read
SetupDefaultAttributes(record, u) == [record EXCEPT !.id = UuidV5(u, record.md5)]

InitLibrary ==
    /\ files = [p \in Path |-> "absent"]
    /\ rows = [r \in Row |-> "none"]
    /\ ing = [t \in Ing |-> FreeIng]
    /\ userId = "u1"
    /\ ids = [r \in Row |-> NoId]

\* buildFromLocalFile up to record.save(): fs.accessSync on the source and the
\* format checks (audio.ts 227-240, video.ts 249-262; `entry` is the class
\* whose method was called, a file of the other kind is handed over), then
\* hashFile, ensureDirSync, copySync, accessSync (lines 242-259).  The await on
\* hashFile reads the source only, so the call runs to the copy in one step.
\* The copy succeeds, or throws and leaves the destination as it was, partly
\* written or whole (accessSync failing); that catch removes nothing.
BuildFromLocalFile(t, entry, h, e, readable, result) ==
    /\ ing[t].pc = "free"
    /\ \A u \in Ing : u < t => ing[u].pc # "free"
    /\ IF ~readable
       THEN /\ ing' = [ing EXCEPT ![t] =
                   [FreeIng EXCEPT !.pc = "failed", !.error = "fileNotFound"]]
            /\ UNCHANGED files
       ELSE IF Route(entry, e, 0).kind \notin Kind
       THEN /\ ing' = [ing EXCEPT ![t] =
                   [FreeIng EXCEPT !.pc = "failed", !.error = "fileNotSupported"]]
            /\ UNCHANGED files
       ELSE LET k == Route(entry, e, 0).kind
                dest == <<k, h, e>> IN
            IF result = "ok"
            THEN /\ files' = [files EXCEPT ![dest] = "ok"]
                 /\ ing' = [ing EXCEPT ![t] =
                        [pc |-> "saving", hash |-> h, ext |-> e, error |-> "none",
                         known |-> rows[<<k, h>>] # "none",
                         entry |-> entry, kind |-> k]]
            ELSE /\ files' = [files EXCEPT ![dest] =
                        IF result = "untouched" THEN @ ELSE result]
                 /\ ing' = [ing EXCEPT ![t] =
                        [FreeIng EXCEPT !.pc = "failed", !.error = "failedToCopyFile"]]
    /\ UNCHANGED <<rows, userId, ids>>
    /\ UNCHANGED notLibrary

\* what record.save().catch does with the copied file (lines 278-283)
AfterFailedSave(f, dest) == [f EXCEPT ![dest] = "absent"]

\* lines 261-284: build and save.  The INSERT fails when the table already
\* holds a row with that md5 (same id, same md5); the catch then removes
\* destFile and re-throws.
SaveRecord(t, r) ==
    /\ ing[t].pc = "saving"
    /\ LET k == ing[t].kind
           dest == <<k, ing[t].hash, ing[t].ext>>
       IN IF rows[<<k, ing[t].hash>>] = "none"
          THEN /\ rows' = [rows EXCEPT ![<<k, ing[t].hash>>] = ing[t].ext]
               /\ ids' = [ids EXCEPT ![<<k, ing[t].hash>>] =
                             SetupDefaultAttributes(Build(ing[t].hash, r), userId).id]
               /\ ing' = [ing EXCEPT ![t].pc = "created", ![t].known = FALSE]
               /\ UNCHANGED files
          ELSE /\ files' = AfterFailedSave(files, dest)
               /\ ing' = [ing EXCEPT ![t] =
                      [FreeIng EXCEPT !.pc = "failed", !.error = "duplicate"]]
               /\ UNCHANGED <<rows, ids>>
    /\ UNCHANGED userId
    /\ UNCHANGED notLibrary

\* the handler has returned the row or sent the error notification
IngestReturn(t) ==
    /\ ing[t].pc \in {"created", "failed"}
    /\ ing' = [ing EXCEPT ![t] = FreeIng]
    /\ UNCHANGED <<files, rows, userId, ids>>
    /\ UNCHANGED notLibrary

\* AudiosHandler.destroy / VideosHandler.destroy of an existing row, with the
\* AfterDestroy hook cleanupFile: fs.remove(filePath)
DestroyAsset(k, h) ==
    /\ <<k, h>> \in Row
    /\ rows[<<k, h>>] # "none"
    /\ rows' = [rows EXCEPT ![<<k, h>>] = "none"]
    /\ files' = [files EXCEPT ![FilePath(k, h)] = "absent"]
    /\ ids' = [ids EXCEPT ![<<k, h>>] = NoId]
    /\ UNCHANGED <<ing, userId>>
    /\ UNCHANGED notLibrary

\* the "settings-set-user" handler (settings.ts 128-130).  userDataPath() is
\* the library path joined with the user's id, so every user has a library of
\* their own: the model follows the library of the user logged in, and a
\* change of user starts on a library that is still empty.
SetUser(u) ==
    /\ u # userId
    /\ \A t \in Ing : ing[t].pc = "free"
    /\ \A r \in Row : rows[r] = "none"
    /\ \A p \in Path : files[p] = "absent"
    /\ userId' = u
    /\ UNCHANGED <<files, rows, ing, ids>>
    /\ UNCHANGED notLibrary

NextLibrary ==
    \/ \E t \in Ing, entry \in Kind, s \in Source, readable \in BOOLEAN,
          result \in {"ok", "untouched", "partial"} :
          BuildFromLocalFile(t, entry, s[1], s[2], readable, result)
    \/ \E t \in Ing, r \in Random : SaveRecord(t, r)
    \/ \E t \in Ing : IngestReturn(t)
    \/ \E k \in Kind, h \in Hash : DestroyAsset(k, h)
    \/ \E u \in User : SetUser(u)


(***************************************************************************)
(* Recordings and the parent's counters                                    *)
(*                                                                         *)
(* One Audio and one Video exist.  A hook looks the parent up and then     *)
(* issues two UPDATE statements (increment/decrement of recordingsCount,   *)
(* then of recordingsDuration); each statement is atomic in the database,  *)
(* the pair is not.  A hook is "find" while findByPk is awaited, "count"   *)
(* while both statements are outstanding, "duration" while the second is,  *)
(* and "done" afterwards ("none": not started).                            *)
(***************************************************************************)
Rec == 1..MaxRecs

Duration == {1, 2}

NoRec == [st |-> "none", targetType |-> "Audio", duration |-> 1]

InitRecording ==
    /\ recs = [r \in Rec |-> NoRec]
    /\ recordingsCount = [k \in Kind |-> 0]
    /\ recordingsDuration = [k \in Kind |-> 0]
    /\ hooks = [r \in Rec |-> [inc |-> "none", dec |-> "none"]]

\* Recording.increaseResourceCache, line 541, and decreaseResourceCache, line
\* 568: the hook acts for these target types and returns at once for others
CountedTargets == {"Audio"}

HookStart(k) == IF k \in CountedTargets THEN "find" ELSE "done"

\* Recording.createFromBlob -> create, with the AfterCreate hook
\* increaseResourceCache started
CreateRecording(r, k, d) ==
    /\ recs[r].st = "none"
    /\ \A q \in Rec : q < r => recs[q].st # "none"
    /\ recs' = [recs EXCEPT ![r] = [st |-> "live", targetType |-> k, duration |-> d]]
    /\ hooks' = [hooks EXCEPT ![r].inc = HookStart(k)]
    /\ UNCHANGED <<recordingsCount, recordingsDuration>>
    /\ UNCHANGED notRecording

\* recording.destroy(), with the AfterDestroy hook decreaseResourceCache started
DestroyRecording(r) ==
    /\ recs[r].st = "live"
    /\ recs' = [recs EXCEPT ![r].st = "gone"]
    /\ hooks' = [hooks EXCEPT ![r].dec = HookStart(recs[r].targetType)]
    /\ UNCHANGED <<recordingsCount, recordingsDuration>>
    /\ UNCHANGED notRecording

\* increaseResourceCache, lines 543-548
IncreaseResourceCache(r) ==
    /\ UNCHANGED recs
    /\ UNCHANGED notRecording
    /\ \/ /\ hooks[r].inc = "find"
          /\ hooks' = [hooks EXCEPT ![r].inc = "count"]
          /\ UNCHANGED <<recordingsCount, recordingsDuration>>
       \/ /\ hooks[r].inc = "count"
          /\ hooks' = [hooks EXCEPT ![r].inc = "duration"]
          /\ recordingsCount' =
                [recordingsCount EXCEPT ![recs[r].targetType] = @ + 1]
          /\ UNCHANGED recordingsDuration
       \/ /\ hooks[r].inc = "duration"
          /\ hooks' = [hooks EXCEPT ![r].inc = "done"]
          /\ recordingsDuration' =
                [recordingsDuration EXCEPT ![recs[r].targetType] = @ + recs[r].duration]
          /\ UNCHANGED recordingsCount

\* decreaseResourceCache, lines 568-575
DecreaseResourceCache(r) ==
    /\ UNCHANGED recs
    /\ UNCHANGED notRecording
    /\ \/ /\ hooks[r].dec = "find"
          /\ hooks' = [hooks EXCEPT ![r].dec = "count"]
          /\ UNCHANGED <<recordingsCount, recordingsDuration>>
       \/ /\ hooks[r].dec = "count"
          /\ hooks' = [hooks EXCEPT ![r].dec = "duration"]
          /\ recordingsCount' =
                [recordingsCount EXCEPT ![recs[r].targetType] = @ - 1]
          /\ UNCHANGED recordingsDuration
       \/ /\ hooks[r].dec = "duration"
          /\ hooks' = [hooks EXCEPT ![r].dec = "done"]
          /\ recordingsDuration' =
                [recordingsDuration EXCEPT ![recs[r].targetType] = @ - recs[r].duration]
          /\ UNCHANGED recordingsCount

NextRecording ==
    \/ \E r \in Rec, k \in Kind, d \in Duration : CreateRecording(r, k, d)
    \/ \E r \in Rec : DestroyRecording(r)
    \/ \E r \in Rec : IncreaseResourceCache(r)
    \/ \E r \in Rec : DecreaseResourceCache(r)

\* no counter hook is pending
Quiescent ==
    \A r \in Rec : hooks[r].inc \in {"none", "done"} /\ hooks[r].dec \in {"none", "done"}

\* the live Recording rows that target the asset of kind k
LiveRecs(k) == {r \in Rec : recs[r].st = "live" /\ recs[r].targetType = k}

RECURSIVE SumDuration(_)
SumDuration(S) ==
    IF S = {} THEN 0
    ELSE LET r == CHOOSE x \in S : TRUE IN recs[r].duration + SumDuration(S \ {r})

(***************************************************************************)
(* Upload and sync                                                         *)
(*                                                                         *)
(* One asset: an Audio, a Video or a Recording (the first two have the     *)
(* same code).  Every invocation works on an instance read from the row    *)
(* when it starts.  A remote call (storage.put, webApi.syncAudio) is issued *)
(* in one millisecond and answered in a later one.  this.update({col: new  *)
(* Date()}) writes the column with the time of the call and updatedAt with *)
(* the time save() reads right after it: the same millisecond or the next. *)
(* A call records when its remote call was issued (at) and when its put    *)
(* was refused (done).                                                     *)
(***************************************************************************)
SyncCall == 1..MaxSyncCalls

AssetKind == {"Audio", "Video", "Recording"}

Name == {"talk", "renamed"}

NoSync ==
    [op |-> "none", force |-> FALSE, put |-> "none", meta |-> "none",
     res |-> "none", at |-> 0, done |-> 0]

InitSync ==
    /\ asset = "none"
    /\ transcribeTimer = "none"
    /\ now = 1
    /\ updatedAt = 0
    /\ syncedAt = 0
    /\ uploadedAt = 0
    /\ name = "talk"
    /\ sy = [c \in SyncCall |-> NoSync]

\* Audio.isSynced, Video.isSynced, Recording.isSynced
IsSynced == syncedAt # 0 /\ syncedAt >= updatedAt

\* Audio.isUploaded
IsUploaded == uploadedAt # 0

FreeSync == {c \in SyncCall : sy[c].op = "none"}

NextSync == CHOOSE c \in FreeSync : \A d \in FreeSync : c <= d

\* sync() up to its first suspension.  Audio.sync / Video.sync (audio.ts
\* 159-167): upload() is called without await when the instance is not
\* uploaded, and webApi.syncAudio is called right away.  Recording.sync
\* (464-472): upload() is awaited, the metadata call waits for it.
SyncEntry ==
    [op |-> "sync", force |-> FALSE,
     put |-> IF IsUploaded THEN "none" ELSE "flight",
     meta |-> IF asset = "Recording" /\ ~IsUploaded THEN "wait" ELSE "flight",
     res |-> "none", at |-> now, done |-> 0]

\* upload(force) up to its first suspension (audio.ts 140-144)
UploadEntry(force) ==
    IF IsUploaded /\ ~force
    THEN [op |-> "upload", force |-> force, put |-> "none", meta |-> "none",
          res |-> "ok", at |-> now, done |-> 0]
    ELSE [op |-> "upload", force |-> force, put |-> "flight", meta |-> "none",
          res |-> "none", at |-> now, done |-> 0]

\* the row is created (Audio.buildFromLocalFile, Recording.createFromBlob);
\* the AfterCreate hook autoSync calls sync() on the created instance, and the
\* hook transcribeAsync of an Audio or Video arms its timer
CreateAsset(k) ==
    /\ asset = "none"
    /\ asset' = k
    /\ transcribeTimer' = IF k \in {"Audio", "Video"} THEN "armed" ELSE "none"
    /\ updatedAt' = now
    /\ sy' = [sy EXCEPT ![1] = [SyncEntry EXCEPT !.meta =
                                   IF k = "Recording" THEN "wait" ELSE "flight"]]
    /\ UNCHANGED <<now, syncedAt, uploadedAt, name>>
    /\ UNCHANGED notSync

\* AudiosHandler.findOne / VideosHandler.findOne: sync() unless isSynced
FindOne ==
    /\ asset \in {"Audio", "Video"}
    /\ ~IsSynced
    /\ FreeSync # {}
    /\ sy' = [sy EXCEPT ![NextSync] = SyncEntry]
    /\ UNCHANGED <<transcribeTimer, asset, now, updatedAt, syncedAt, uploadedAt, name>>
    /\ UNCHANGED notSync

\* AudiosHandler.upload / VideosHandler.upload (force = false), or a call of
\* upload(force) itself
Upload(force) ==
    /\ asset # "none"
    /\ FreeSync # {}
    /\ sy' = [sy EXCEPT ![NextSync] = UploadEntry(force)]
    /\ UNCHANGED <<transcribeTimer, asset, now, updatedAt, syncedAt, uploadedAt, name>>
    /\ UNCHANGED notSync

\* storage.put answered with data.success: update({uploadedAt: new Date()})
\* (lines 145-148); a Recording's sync() goes on to the metadata call
PutSucceeds(c, d) ==
    /\ sy[c].put = "flight"
    /\ now > sy[c].at
    /\ now + d <= MaxTime
    /\ uploadedAt' = now
    /\ updatedAt' = now + d
    /\ now' = now + d
    /\ sy' = [sy EXCEPT ![c].put = "ok",
                        ![c].res = IF sy[c].op = "upload" THEN "ok" ELSE @,
                        ![c].meta = IF @ = "wait" THEN "flight" ELSE @,
                        ![c].at = IF sy[c].meta = "wait" THEN now + d ELSE @]
    /\ UNCHANGED <<transcribeTimer, asset, syncedAt, name>>
    /\ UNCHANGED notSync

\* PutFails with the timestamp written although the put did not succeed
PutFailsMarksUploaded(c) ==
    /\ sy[c].put = "flight"
    /\ now > sy[c].at
    /\ sy' = [sy EXCEPT ![c].put = "failed",
                        ![c].done = now,
                        ![c].res = IF sy[c].op = "upload" THEN "error" ELSE @,
                        ![c].meta = IF @ = "wait" THEN "none" ELSE @]
    /\ uploadedAt' = now
    /\ updatedAt' = now
    /\ UNCHANGED <<transcribeTimer, asset, now, syncedAt, name>>
    /\ UNCHANGED notSync

\* storage.put answered without data.success, or the transport failed: upload()
\* throws (lines 149-156).  The upload handler reports the error; a
\* Recording's sync() ends with it; Audio.sync / Video.sync do not see it.
PutFails(c) ==
    /\ sy[c].put = "flight"
    /\ now > sy[c].at
    /\ sy' = [sy EXCEPT ![c].put = "failed",
                        ![c].done = now,
                        ![c].res = IF sy[c].op = "upload" \/ sy[c].meta = "wait"
                                   THEN "error" ELSE @,
                        ![c].meta = IF @ = "wait" THEN "none" ELSE @]
    /\ UNCHANGED <<transcribeTimer, asset, now, updatedAt, syncedAt, uploadedAt, name>>
    /\ UNCHANGED notSync

\* webApi.syncAudio / syncVideo / syncRecording resolved:
\* update({syncedAt: new Date()}) (lines 164-166)
SyncSucceeds(c, d) ==
    /\ sy[c].meta = "flight"
    /\ now > sy[c].at
    /\ now + d <= MaxTime
    /\ syncedAt' = now
    /\ updatedAt' = now + d
    /\ now' = now + d
    /\ sy' = [sy EXCEPT ![c].meta = "ok", ![c].res = "ok"]
    /\ UNCHANGED <<transcribeTimer, asset, uploadedAt, name>>
    /\ UNCHANGED notSync

\* the metadata call rejected: sync() rejects, the caller's catch drops it
SyncFails(c) ==
    /\ sy[c].meta = "flight"
    /\ now > sy[c].at
    /\ sy' = [sy EXCEPT ![c].meta = "failed", ![c].res = "error"]
    /\ UNCHANGED <<transcribeTimer, asset, now, updatedAt, syncedAt, uploadedAt, name>>
    /\ UNCHANGED notSync

\* AudiosHandler.update / VideosHandler.update: update({name, description})
\* with a changed value.  (The counter hooks' increment and decrement write
\* updatedAt the same way.)
UpdateAsset(n) ==
    /\ asset \in {"Audio", "Video"}
    /\ n # name
    /\ name' = n
    /\ updatedAt' = now
    /\ UNCHANGED <<transcribeTimer, asset, now, syncedAt, uploadedAt, sy>>
    /\ UNCHANGED notSync

\* a millisecond passes
Tick ==
    /\ now < MaxTime
    /\ now' = now + 1
    /\ UNCHANGED <<transcribeTimer, asset, updatedAt, syncedAt, uploadedAt, name, sy>>
    /\ UNCHANGED notSync

NextSyncStep ==
    \/ \E k \in AssetKind : CreateAsset(k)
    \/ FindOne
    \/ \E force \in BOOLEAN : Upload(force)
    \/ \E c \in SyncCall, d \in {0, 1} : PutSucceeds(c, d)
    \/ \E c \in SyncCall : PutFails(c)
    \/ \E c \in SyncCall, d \in {0, 1} : SyncSucceeds(c, d)
    \/ \E c \in SyncCall : SyncFails(c)
    \/ \E n \in Name : UpdateAsset(n)
    \/ Tick

\* number of storage.put calls answered with success
OkPuts == Cardinality({c \in SyncCall : sy[c].put = "ok"})

(***************************************************************************)
(* Downloader                                                              *)
(*                                                                         *)
(* download() asks the window to fetch the url and adds a "will-download"  *)
(* listener to the session; the listener is never removed, so the item of  *)
(* a later call is handled by the listeners of all calls made so far: each *)
(* pushes the item on tasks and attaches handlers that resolve its own     *)
(* call's promise.  Callers pass no savePath, the save path is the         *)
(* downloads directory joined with the item's filename.                    *)
(***************************************************************************)
Dl == 1..MaxDownloads

FileName == {"a.mp3", "b.mp3"}

NoDownload == [st |-> "none", name |-> "a.mp3", result |-> "pending"]

NoItem == [state |-> "absent", done |-> FALSE, handlers |-> 0]

InitDownload ==
    /\ dls = [c \in Dl |-> NoDownload]
    /\ items = [c \in Dl |-> NoItem]
    /\ tasks = <<>>
    /\ disk = [n \in FileName |-> "absent"]
    /\ req = "none"
    /\ ack = "none"
    /\ sent = [c \in Dl |-> <<>>]

\* number of download() calls made, that is, of listeners on the session
Listeners == Cardinality({c \in Dl : dls[c].st # "none"})

\* resolve(v) in the handlers that the first n listeners attached; a promise
\* keeps its first resolution
Resolve(n, v) ==
    [c \in Dl |-> IF c <= n /\ dls[c].result = "pending"
                  THEN [dls[c] EXCEPT !.result = v]
                  ELSE dls[c]]

RECURSIVE Copies(_, _)
Copies(i, n) == IF n = 0 THEN <<>> ELSE <<i>> \o Copies(i, n - 1)

\* download(url): downloadURL and session.on("will-download", ...)
Download(n) ==
    /\ Listeners < MaxDownloads
    /\ dls' = [dls EXCEPT ![Listeners + 1] =
                 [st |-> "requested", name |-> n, result |-> "pending"]]
    /\ UNCHANGED <<items, tasks, disk, req, ack, sent>>
    /\ UNCHANGED notDownload

\* the session emits will-download for the item of call c: every listener
\* sets the save path, pushes the item on tasks and attaches its handlers
WillDownload(c) ==
    /\ dls[c].st = "requested"
    /\ dls' = [dls EXCEPT ![c].st = "started"]
    /\ items' = [items EXCEPT ![c] =
                   [state |-> "progressing", done |-> FALSE, handlers |-> Listeners]]
    /\ tasks' = tasks \o Copies(c, Listeners)
    /\ disk' = [disk EXCEPT ![dls[c].name] = "partial"]
    /\ UNCHANGED <<req, ack, sent>>
    /\ UNCHANGED notDownload

\* the "progressing" states sent so far, over all items
RECURSIVE Progress(_)
Progress(S) ==
    IF S = {} THEN 0
    ELSE LET i == CHOOSE j \in S : TRUE
         IN  Len(SelectSeq(sent[i], LAMBDA e : e = "progressing")) + Progress(S \ {i})

\* item.on("updated") with state "progressing": every handler attached to
\* the item sends the state
ItemUpdated(i) ==
    /\ items[i].state = "progressing"
    /\ Progress(Dl) < MaxProgress
    /\ sent' = [sent EXCEPT ![i] = @ \o Copies("progressing", items[i].handlers)]
    /\ UNCHANGED <<dls, items, tasks, disk, req, ack>>
    /\ UNCHANGED notDownload

\* item.on("updated") with state "interrupted": the state is sent,
\* resolve(undefined)
ItemInterrupted(i) ==
    /\ items[i].state = "progressing"
    /\ items' = [items EXCEPT ![i].state = "interrupted"]
    /\ sent' = [sent EXCEPT ![i] = @ \o Copies("interrupted", items[i].handlers)]
    /\ dls' = Resolve(items[i].handlers, "undefined")
    /\ UNCHANGED <<tasks, disk, req, ack>>
    /\ UNCHANGED notDownload

\* item.on("done") with state "completed": resolve(item.getSavePath())
ItemCompleted(i) ==
    /\ items[i].state = "progressing"
    /\ items' = [items EXCEPT ![i].state = "completed", ![i].done = TRUE]
    /\ disk' = [disk EXCEPT ![dls[i].name] = "complete"]
    /\ sent' = [sent EXCEPT ![i] = @ \o Copies("completed", items[i].handlers)]
    /\ dls' = Resolve(items[i].handlers, dls[i].name)
    /\ UNCHANGED <<tasks, req, ack>>
    /\ UNCHANGED notDownload

\* item.on("done") with state "cancelled" or "interrupted": the file at the
\* save path is removed, resolve(undefined)
ItemDone(i) ==
    /\ items[i].state \in {"cancelled", "interrupted"}
    /\ ~items[i].done
    /\ items' = [items EXCEPT ![i].done = TRUE]
    /\ disk' = [disk EXCEPT ![dls[i].name] = "absent"]
    /\ sent' = [sent EXCEPT ![i] = @ \o Copies(items[i].state, items[i].handlers)]
    /\ dls' = Resolve(items[i].handlers, "undefined")
    /\ UNCHANGED <<tasks, req, ack>>
    /\ UNCHANGED notDownload

\* the renderer invokes "download-cancel" with a filename
DownloadCancel(n) ==
    /\ req = "none"
    /\ ack = "none"
    /\ Len(tasks) > 0
    /\ req' = n
    /\ UNCHANGED <<dls, items, tasks, disk, ack, sent>>
    /\ UNCHANGED notDownload

\* the renderer invokes "download-cancel-all"
DownloadCancelAll ==
    /\ req = "none"
    /\ ack = "none"
    /\ Len(tasks) > 0
    /\ req' = "all"
    /\ UNCHANGED <<dls, items, tasks, disk, ack, sent>>
    /\ UNCHANGED notDownload

\* tasks.find((t) => t.getFilename() === filename): the first match, 0 if none
Find(n) ==
    LET hits == {k \in 1..Len(tasks) : dls[tasks[k]].name = n}
    IN  IF hits = {} THEN 0
        ELSE tasks[CHOOSE k \in hits : \A j \in hits : k <= j]

\* item.cancel(): a transfer that has not ended becomes cancelled
CancelItem(it) ==
    IF it.state \in {"progressing", "interrupted"} /\ ~it.done
    THEN [it EXCEPT !.state = "cancelled"]
    ELSE it

\* cancel on every state of the task found, without the test for "progressing"
AfterCancelAnyState(its, n) ==
    LET task == Find(n)
    IN  IF task # 0
        THEN [its EXCEPT ![task] = CancelItem(@)]
        ELSE its

\* the items after cancel(filename): the task found is cancelled when its
\* state is "progressing"
AfterCancel(its, n) ==
    LET task == Find(n)
    IN  IF task # 0 /\ its[task].state = "progressing"
        THEN [its EXCEPT ![task] = CancelItem(@)]
        ELSE its

\* cancel(filename), run by the "download-cancel" handler, which then replies
Cancel ==
    /\ req \in FileName
    /\ req' = "none"
    /\ ack' = req
    /\ items' = AfterCancel(items, req)
    /\ UNCHANGED <<dls, tasks, disk, sent>>
    /\ UNCHANGED notDownload

\* cancelAll(), run by the "download-cancel-all" handler
CancelAll ==
    /\ req = "all"
    /\ req' = "none"
    /\ ack' = "all"
    /\ items' = [i \in Dl |->
                   IF \E k \in 1..Len(tasks) : tasks[k] = i
                   THEN CancelItem(items[i]) ELSE items[i]]
    /\ UNCHANGED <<dls, tasks, disk, sent>>
    /\ UNCHANGED notDownload

\* dashboard(): tasks.map(...), one entry per element of tasks
Dashboard ==
    [k \in 1..Len(tasks) |-> [name |-> dls[tasks[k]].name, state |-> items[tasks[k]].state]]

\* the renderer gets the reply of its invoke
Replied ==
    /\ ack # "none"
    /\ ack' = "none"
    /\ UNCHANGED <<dls, items, tasks, disk, req, sent>>
    /\ UNCHANGED notDownload

NextDownload ==
    \/ \E n \in FileName : Download(n)
    \/ \E c \in Dl : WillDownload(c)
    \/ \E i \in Dl : ItemInterrupted(i)
    \/ \E i \in Dl : ItemCompleted(i)
    \/ \E i \in Dl : ItemDone(i)
    \/ \E n \in FileName : DownloadCancel(n)
    \/ DownloadCancelAll
    \/ Cancel
    \/ CancelAll
    \/ Replied

\* the downloader with the progress reports of the running transfers
NextEvents ==
    \/ NextDownload
    \/ \E i \in Dl : ItemUpdated(i)

(***************************************************************************)
(* The background tasks of a created Audio or Video                        *)
(*                                                                         *)
(* The AfterCreate hooks start sync() and arm the timer that calls         *)
(* transcribe().  Here every collaborator answers with success, nothing    *)
(* else calls into the models, and the clock moves while a remote call is  *)
(* waiting for its answer.                                                 *)
(***************************************************************************)
\* the timer fires and transcribe() is never called
TranscribeAsyncDropped ==
    /\ transcribeTimer = "armed"
    /\ transcribeTimer' = "fired"
    /\ UNCHANGED <<asset, now, updatedAt, syncedAt, uploadedAt, name, sy>>
    /\ UNCHANGED <<trVars, libVars, recVars, dlVars, assessVars, regVars, tabVars, convVars, loginVars>>

\* Audio.transcribeAsync / Video.transcribeAsync (audio.ts 185-190): the timer
\* fires and calls transcribe(), the database part of which is FindOrCreate
TranscribeAsync ==
    /\ transcribeTimer = "armed"
    /\ transcribeTimer' = "fired"
    /\ Free # {}
    /\ FindOrCreate(NextFree, "transcribe")
    /\ UNCHANGED <<sttCalls, trSyncedAt, trResult>>
    /\ UNCHANGED <<asset, now, updatedAt, syncedAt, uploadedAt, name, sy>>
    /\ UNCHANGED <<libVars, recVars, dlVars, assessVars, regVars, tabVars, convVars, loginVars>>

\* a millisecond passes while a remote call waits for its answer
TickWaiting ==
    /\ \E c \in SyncCall :
          (sy[c].put = "flight" \/ sy[c].meta = "flight") /\ now <= sy[c].at
    /\ Tick

NextBackground ==
    \/ \E k \in {"Audio", "Video"} : CreateAsset(k)
    \/ TranscribeAsync
    \/ \E c \in Call : AssetTranscribeThen(c)
    \/ \E c \in Call : StartTranscribeAsync(c)
    \/ \E c \in Call : ProcessStart(c)
    \/ \E c \in Call : TranscribeOk(c)
    \/ \E c \in Call : TranscriptionSync(c)
    \/ \E c \in Call : SyncTranscriptionOk(c)
    \/ \E c \in SyncCall, d \in {0, 1} : PutSucceeds(c, d)
    \/ \E c \in SyncCall, d \in {0, 1} : SyncSucceeds(c, d)
    \/ TickWaiting

\* every background task that can run does run
FairBackground ==
    /\ WF_vars(TranscribeAsync)
    /\ WF_vars(TickWaiting)
    /\ \A c \in Call :
          /\ WF_vars(AssetTranscribeThen(c))
          /\ WF_vars(StartTranscribeAsync(c))
          /\ WF_vars(ProcessStart(c))
          /\ WF_vars(TranscribeOk(c))
          /\ WF_vars(TranscriptionSync(c))
          /\ WF_vars(SyncTranscriptionOk(c))
    /\ \A c \in SyncCall :
          /\ WF_vars(\E d \in {0, 1} : PutSucceeds(c, d))
          /\ WF_vars(\E d \in {0, 1} : SyncSucceeds(c, d))

(***************************************************************************)
(* Recording.assess                                                        *)
(*                                                                         *)
(* One Recording.  assess() looks for its PronunciationAssessment, and     *)
(* without one asks for a speech token, runs the assessment of the SDK and *)
(* creates the row; it is suspended at each of the four awaits.            *)
(***************************************************************************)
AssessCall == 1..MaxAssess

NoAssess == [pc |-> "free", ret |-> "none"]

InitAssess ==
    /\ assessments = 0
    /\ assessCalls = [c \in AssessCall |-> NoAssess]
    /\ speechTokens = 0
    /\ sdkCalls = 0

\* assess() is called: PronunciationAssessment.findOne is issued (475-477)
Assess(c) ==
    /\ assessCalls[c].pc = "free"
    /\ \A d \in AssessCall : d < c => assessCalls[d].pc # "free"
    /\ assessCalls' = [assessCalls EXCEPT ![c].pc = "find"]
    /\ UNCHANGED <<assessments, speechTokens, sdkCalls>>
    /\ UNCHANGED notAssess

\* findOne answered (479-483): an existing row is returned, else the token is
\* requested
AssessFound(c) ==
    /\ assessCalls[c].pc = "find"
    /\ IF assessments > 0
       THEN /\ assessCalls' = [assessCalls EXCEPT ![c] = [pc |-> "done", ret |-> "existing"]]
            /\ UNCHANGED speechTokens
       ELSE /\ assessCalls' = [assessCalls EXCEPT ![c].pc = "token"]
            /\ speechTokens' = speechTokens + 1
    /\ UNCHANGED <<assessments, sdkCalls>>
    /\ UNCHANGED notAssess

\* the token arrived: the SDK's assessment is started (483-489)
TokenOk(c) ==
    /\ assessCalls[c].pc = "token"
    /\ assessCalls' = [assessCalls EXCEPT ![c].pc = "sdk"]
    /\ sdkCalls' = sdkCalls + 1
    /\ UNCHANGED <<assessments, speechTokens>>
    /\ UNCHANGED notAssess

\* the assessment arrived: PronunciationAssessment.create is issued (491-510)
SdkOk(c) ==
    /\ assessCalls[c].pc = "sdk"
    /\ assessCalls' = [assessCalls EXCEPT ![c].pc = "create"]
    /\ UNCHANGED <<assessments, speechTokens, sdkCalls>>
    /\ UNCHANGED notAssess

\* the token request or the assessment failed: assess() rejects
AssessFails(c) ==
    /\ assessCalls[c].pc \in {"token", "sdk"}
    /\ assessCalls' = [assessCalls EXCEPT ![c] = [pc |-> "failed", ret |-> "error"]]
    /\ UNCHANGED <<assessments, speechTokens, sdkCalls>>
    /\ UNCHANGED notAssess

\* the INSERT of create: a new row; the created record is returned (511)
AssessCreated(c) ==
    /\ assessCalls[c].pc = "create"
    /\ assessments' = assessments + 1
    /\ assessCalls' = [assessCalls EXCEPT ![c] = [pc |-> "done", ret |-> "created"]]
    /\ UNCHANGED <<speechTokens, sdkCalls>>
    /\ UNCHANGED notAssess

NextAssess ==
    \/ \E c \in AssessCall : Assess(c)
    \/ \E c \in AssessCall : AssessFound(c)
    \/ \E c \in AssessCall : TokenOk(c)
    \/ \E c \in AssessCall : SdkOk(c)
    \/ \E c \in AssessCall : AssessFails(c)
    \/ \E c \in AssessCall : AssessCreated(c)

(***************************************************************************)
(* One row, its handlers and its hooks                                     *)
(*                                                                         *)
(* One id.  The row with that id, if there is one, is an Audio, a Video, a *)
(* Recording or a Transcription.  "audios-update" / "videos-update" and    *)
(* "audios-destroy" / "videos-destroy" look the id up in their own table.  *)
(* The AfterCreate hooks start sync() and, for an Audio or Video, the      *)
(* timer of transcribe(); their remote calls are answered later (the       *)
(* upload and sync component has their timing).  Every notify hook sends   *)
(* "db-on-transaction" to the window if there is one.                      *)
(***************************************************************************)
Model == {"Audio", "Video", "Recording", "Transcription"}

Desc == {"", "a talk"}

Action == {"create", "update", "destroy"}

NewRecord ==
    [id |-> "id1", md5 |-> "abc123", name |-> "talk", description |-> "",
     count |-> 0, uploadedAt |-> 0, syncedAt |-> 0]

NoTasks == [model |-> "none", put |-> "none", meta |-> "none", stt |-> "none"]

NoRequest == [op |-> "none", notification |-> "none", result |-> "none", cleanup |-> "none"]

InitRegistry ==
    /\ win = FALSE
    /\ regModel = "none"
    /\ reg = NewRecord
    /\ regFile = "absent"
    /\ remote = [blob |-> FALSE, meta |-> FALSE]
    /\ bg = NoTasks
    /\ events = <<>>
    /\ out = NoRequest
    /\ unhandled = FALSE

\* the notify hooks a model class declares: Audio (audio.ts 198-211), Video
\* (video.ts 220-233) and Recording (551-564) for the three actions,
\* Transcription (transcription.ts 139-147) for update and destroy
NotifyHooks(m) ==
    IF m = "Transcription" THEN {"update", "destroy"} ELSE Action

\* the hooks of action a on a row of model m run: notify (audio.ts 318-327)
Emit(m, a) ==
    IF a \in NotifyHooks(m) /\ win
    THEN Append(events, [model |-> m, id |-> reg.id, action |-> a])
    ELSE events

\* the tasks in flight of the row created last
Settled == \A f \in {"put", "meta", "stt"} : bg[f] \notin {"flight", "wait"}

\* the main window is created (part_002 313)
WindowCreated ==
    /\ ~win
    /\ win' = TRUE
    /\ UNCHANGED <<regModel, reg, regFile, remote, bg, events, out, unhandled>>
    /\ UNCHANGED notRegistry

\* a row is created and returned to the requester (buildFromLocalFile,
\* createFromBlob, findOrCreate).  AfterCreate: autoSync starts sync(), which
\* for an Audio or Video calls upload() without awaiting it and the metadata
\* call at once, and for a Recording awaits upload() first; transcribeAsync
\* (startTranscribeAsync for a Transcription) arms the timer; notifyForCreate.
RegCreate(m) ==
    /\ regModel = "none"
    /\ Settled
    /\ Len(events) < MaxEvents
    /\ regModel' = m
    /\ reg' = NewRecord
    /\ regFile' = IF m = "Transcription" THEN regFile ELSE "present"
    /\ bg' = CASE m \in {"Audio", "Video"} ->
                    [model |-> m, put |-> "flight", meta |-> "flight", stt |-> "flight"]
               [] m = "Recording" ->
                    [model |-> m, put |-> "flight", meta |-> "wait", stt |-> "none"]
               [] OTHER ->
                    [model |-> m, put |-> "none", meta |-> "none", stt |-> "flight"]
    /\ events' = Emit(m, "create")
    /\ out' = [op |-> "create", notification |-> "none", result |-> "record",
               cleanup |-> "none"]
    /\ UNCHANGED <<win, remote, unhandled>>
    /\ UNCHANGED notRegistry

\* AudiosHandler.update (audios-handler.ts 133-155), VideosHandler.update
\* (part_001 237-259): findOne; without a row the notFound error is thrown
\* and sent as a notification by the catch; else update({name, description}),
\* which saves and runs AfterUpdate when a value changed
RegUpdate(n, d) ==
    /\ Len(events) < MaxEvents
    /\ IF regModel \in {"Audio", "Video"}
       THEN /\ reg' = [reg EXCEPT !.name = n, !.description = d]
            /\ events' = IF reg' # reg THEN Emit(regModel, "update") ELSE events
            /\ out' = [op |-> "update", notification |-> "none",
                       result |-> "resolved", cleanup |-> "none"]
       ELSE /\ out' = [op |-> "update", notification |-> "notFound",
                       result |-> "resolved", cleanup |-> "none"]
            /\ UNCHANGED <<reg, events>>
    /\ UNCHANGED <<win, regModel, regFile, remote, bg, unhandled>>
    /\ UNCHANGED notRegistry

\* destroy with a row that comes back when the file could not be removed
DestroyKeepsRowOnFailure(removed) ==
    /\ regModel # "none"
    /\ Len(events) < MaxEvents
    /\ regModel' = IF removed THEN "none" ELSE regModel
    /\ regFile' = IF removed THEN "absent" ELSE regFile
    /\ events' = IF removed THEN Emit(regModel, "destroy") ELSE events
    /\ out' = [op |-> "destroy", notification |-> "none", result |-> "resolved",
               cleanup |-> IF removed THEN "removed" ELSE "failed"]
    /\ UNCHANGED <<win, reg, remote, bg, unhandled>>
    /\ UNCHANGED notRegistry

\* destroy() of the row's instance: the DELETE, then AfterDestroy:
\* notifyForDestroy and cleanupFile, fs.remove(filePath), which removes the
\* file or fails (audio.ts 208-216, 561-581; a Transcription has no file)
Destroy(removed) ==
    /\ regModel # "none"
    /\ Len(events) < MaxEvents
    /\ regModel' = "none"
    /\ regFile' = IF removed /\ regModel # "Transcription" THEN "absent" ELSE regFile
    /\ events' = Emit(regModel, "destroy")
    /\ out' = [op |-> "destroy", notification |-> "none", result |-> "resolved",
               cleanup |-> CASE regModel = "Transcription" -> "none"
                             [] removed -> "removed"
                             [] OTHER -> "failed"]
    /\ UNCHANGED <<win, reg, remote, bg, unhandled>>
    /\ UNCHANGED notRegistry

\* AudiosHandler.destroy (audios-handler.ts 157-169), VideosHandler.destroy
\* (part_001 261-273): findOne; without a row the notFound notification is
\* sent and destroy() is then called on null, which throws a TypeError out of
\* the handler; with one, destroy()
RegDestroy(removed) ==
    IF regModel \in {"Audio", "Video"}
    THEN Destroy(removed)
    ELSE /\ out' = [op |-> "destroy", notification |-> "notFound",
                    result |-> "TypeError", cleanup |-> "none"]
         /\ UNCHANGED <<win, regModel, reg, regFile, remote, bg, events, unhandled>>
         /\ UNCHANGED notRegistry

\* destroy() of a Recording or a Transcription
RegModelDestroy(removed) ==
    /\ regModel \in {"Recording", "Transcription"}
    /\ Destroy(removed)

\* Recording.increaseResourceCache (audio.ts 539-549): a Recording of the Audio
\* is created, the counter is incremented; increment() is an UPDATE that runs
\* no hooks
RegIncrement ==
    /\ regModel = "Audio"
    /\ reg.count = 0
    /\ reg' = [reg EXCEPT !.count = 1]
    /\ UNCHANGED <<win, regModel, regFile, remote, bg, events, out, unhandled>>
    /\ UNCHANGED notRegistry

\* storage.put answered with success (audio.ts 145-148): the service holds the
\* blob; update({uploadedAt}) on the row if it is still there
RegPutOk ==
    /\ bg.put = "flight"
    /\ Len(events) < MaxEvents
    /\ remote' = [remote EXCEPT !.blob = TRUE]
    /\ bg' = [bg EXCEPT !.put = "ok", !.meta = IF @ = "wait" THEN "flight" ELSE @]
    /\ IF regModel # "none"
       THEN /\ reg' = [reg EXCEPT !.uploadedAt = 1]
            /\ events' = Emit(regModel, "update")
       ELSE UNCHANGED <<reg, events>>
    /\ UNCHANGED <<win, regModel, regFile, out, unhandled>>
    /\ UNCHANGED notRegistry

\* storage.put failed: upload() re-throws (audio.ts 152-155).  Recording.sync
\* awaits upload(), its rejection ends in the catch of autoSync (464-467,
\* 533-537); Audio.sync and Video.sync dropped the promise (159-162), nothing
\* handles the rejection
RegPutFails ==
    /\ bg.put = "flight"
    /\ bg' = [bg EXCEPT !.put = "failed", !.meta = IF @ = "wait" THEN "none" ELSE @]
    /\ unhandled' = (unhandled \/ bg.model \in {"Audio", "Video"})
    /\ UNCHANGED <<win, regModel, reg, regFile, remote, events, out>>
    /\ UNCHANGED notRegistry

\* the metadata call resolved (audio.ts 164-166): update({syncedAt})
RegMetaOk ==
    /\ bg.meta = "flight"
    /\ Len(events) < MaxEvents
    /\ remote' = [remote EXCEPT !.meta = TRUE]
    /\ bg' = [bg EXCEPT !.meta = "ok"]
    /\ IF regModel # "none"
       THEN /\ reg' = [reg EXCEPT !.syncedAt = 1]
            /\ events' = Emit(regModel, "update")
       ELSE UNCHANGED <<reg, events>>
    /\ UNCHANGED <<win, regModel, regFile, out, unhandled>>
    /\ UNCHANGED notRegistry

\* the metadata call rejected: sync() rejects into autoSync's catch (192-196)
RegMetaFails ==
    /\ bg.meta = "flight"
    /\ bg' = [bg EXCEPT !.meta = "failed"]
    /\ UNCHANGED <<win, regModel, reg, regFile, remote, events, out, unhandled>>
    /\ UNCHANGED notRegistry

\* the timer's transcribe() (process() for a Transcription) went through
RegTranscribeOk ==
    /\ bg.stt = "flight"
    /\ bg' = [bg EXCEPT !.stt = "ok"]
    /\ UNCHANGED <<win, regModel, reg, regFile, remote, events, out, unhandled>>
    /\ UNCHANGED notRegistry

\* findOrCreate or the attempt failed.  The timer's callback drops the promise
\* of transcribe() (audio.ts 185-190), transcribe() drops the promise of its
\* chain, whose catch re-throws, and of process() (286-316); the timer of a
\* Transcription drops the promise of process() (transcription.ts 132-137)
RegTranscribeFails ==
    /\ bg.stt = "flight"
    /\ bg' = [bg EXCEPT !.stt = "failed"]
    /\ unhandled' = TRUE
    /\ UNCHANGED <<win, regModel, reg, regFile, remote, events, out>>
    /\ UNCHANGED notRegistry

NextRegistry ==
    \/ WindowCreated
    \/ \E m \in Model : RegCreate(m)
    \/ \E n \in Name, d \in Desc : RegUpdate(n, d)
    \/ \E removed \in BOOLEAN : RegDestroy(removed)
    \/ \E removed \in BOOLEAN : RegModelDestroy(removed)
    \/ RegIncrement
    \/ RegPutOk
    \/ RegPutFails
    \/ RegMetaOk
    \/ RegMetaFails
    \/ RegTranscribeOk
    \/ RegTranscribeFails

(***************************************************************************)
(* The transcriptions table                                                *)
(*                                                                         *)
(* The targets are the assets of the library: an Audio and a Video may     *)
(* have the same md5, and with it the same id.  findOrCreate is a SELECT   *)
(* and, when nothing was found, an INSERT; the table's only unique column  *)
(* besides the primary key is targetMd5 (transcription.ts 40-42).  The id  *)
(* of a row is a fresh UUID, here the number of the call that created it.  *)
(***************************************************************************)
FindCall == 1..MaxFinds

NoFind == [pc |-> "free", target |-> <<"Audio", "abc123">>]

InitTable ==
    /\ trRows = {}
    /\ finds = [c \in FindCall |-> NoFind]

\* the rows the where clause {targetId, targetType} selects
Matching(t) ==
    {r \in trRows : r.targetId = UuidV5(userId, t[2]) /\ r.targetType = t[1]}

\* the INSERT without the unique index on targetMd5
InsertUnchecked(c) ==
    /\ finds[c].pc = "insert"
    /\ LET t == finds[c].target IN
         /\ trRows' = trRows \cup
                {[id |-> c, targetId |-> UuidV5(userId, t[2]), targetType |-> t[1],
                  targetMd5 |-> t[2], state |-> "pending"]}
         /\ finds' = [finds EXCEPT ![c].pc = "created"]
    /\ UNCHANGED notTable

\* Transcription.findOrCreate({where: {targetId, targetType}, defaults: {...,
\* targetMd5}}) by the handler (part_001 20-30) or by transcribe() (audio.ts
\* 288-298): the SELECT is issued
TableFindOrCreate(c, t) ==
    /\ finds[c].pc = "free"
    /\ \A d \in FindCall : d < c => finds[d].pc # "free"
    /\ finds' = [finds EXCEPT ![c] = [pc |-> "select", target |-> t]]
    /\ UNCHANGED trRows
    /\ UNCHANGED notTable

\* the SELECT answered: the row found is returned, else the INSERT is issued
Selected(c) ==
    /\ finds[c].pc = "select"
    /\ finds' = [finds EXCEPT ![c].pc =
                    IF Matching(finds[c].target) # {} THEN "found" ELSE "insert"]
    /\ UNCHANGED trRows
    /\ UNCHANGED notTable

\* the INSERT of the defaults, state pending by the column's default (44-46):
\* it fails on the unique targetMd5 when a row has that md5; targetMd5 is not
\* in the where clause, so findOrCreate re-throws the error
Insert(c) ==
    /\ finds[c].pc = "insert"
    /\ LET t == finds[c].target IN
         IF \E r \in trRows : r.targetMd5 = t[2]
         THEN /\ finds' = [finds EXCEPT ![c].pc = "uniqueError"]
              /\ UNCHANGED trRows
         ELSE /\ trRows' = trRows \cup
                     {[id |-> c, targetId |-> UuidV5(userId, t[2]), targetType |-> t[1],
                       targetMd5 |-> t[2], state |-> "pending"]}
              /\ finds' = [finds EXCEPT ![c].pc = "created"]
    /\ UNCHANGED notTable

\* Transcription.process on a row: update({state}) (transcription.ts 98-117)
RowProcessed(r, st) ==
    /\ r \in trRows
    /\ st # r.state
    /\ trRows' = (trRows \ {r}) \cup {[r EXCEPT !.state = st]}
    /\ UNCHANGED finds
    /\ UNCHANGED notTable

NextTable ==
    \/ \E c \in FindCall, t \in Row : TableFindOrCreate(c, t)
    \/ \E c \in FindCall : Selected(c)
    \/ \E c \in FindCall : Insert(c)
    \/ \E r \in trRows, st \in {"processing", "finished"} : RowProcessed(r, st)

(***************************************************************************)
(* The conversation page                                                   *)
(*                                                                         *)
(* handleSubmit adds a pending message, sets the submitting flag, sets a   *)
(* timer of five minutes and calls conversations.ask.  The send button and *)
(* the input are disabled while submitting; the resend of a message with   *)
(* status error calls handleSubmit directly.  The input is taken to hold   *)
(* text whenever the button is used, and the toast of handleSubmit, which  *)
(* changes no state of the page, is left out.  Time is counted in halves   *)
(* of the timer's delay.                                                   *)
(***************************************************************************)
Ask == 1..MaxAsks

\* 1000 * 60 * 5 ms, in units of 150 s
Timeout == 2

InitConversation ==
    /\ submitting = FALSE
    /\ msgs = [r \in Ask |-> "none"]
    /\ asks = [r \in Ask |-> "none"]
    /\ timers = [r \in Ask |-> "none"]
    /\ age = [r \in Ask |-> 0]

\* the handleSubmit calls made so far are 1 .. NextAsk - 1
NextAsk ==
    IF \A r \in Ask : asks[r] # "none" THEN 0
    ELSE CHOOSE r \in Ask : asks[r] = "none" /\ \A q \in Ask : q < r => asks[q] # "none"

\* the timers after the finally of a request, without the clearTimeout
KeepTimeout(r) == timers

\* clearTimeout(timeout): a timer that has not fired will not fire
ClearTimeout(r) ==
    [timers EXCEPT ![r] = IF @ = "armed" THEN "cleared" ELSE @]

\* handleSubmit(text): whether submitting or not, the new pending message,
\* setSubmitting(true), setTimeout and conversations.ask; list is the message
\* list before the call
HandleSubmit(r, list) ==
    /\ msgs' = [list EXCEPT ![r] = "pending"]
    /\ submitting' = TRUE
    /\ timers' = [timers EXCEPT ![r] = "armed"]
    /\ age' = [age EXCEPT ![r] = 0]
    /\ asks' = [asks EXCEPT ![r] = "flight"]

\* the send button, disabled when submitting
Submit ==
    /\ ~submitting
    /\ NextAsk # 0
    /\ HandleSubmit(NextAsk, msgs)
    /\ UNCHANGED notConversation

\* onResend of a message with status error: the message is removed from the
\* list and handleSubmit(message.content) is called
Resend(m) ==
    /\ msgs[m] = "error"
    /\ NextAsk # 0
    /\ HandleSubmit(NextAsk, [msgs EXCEPT ![m] = "destroyed"])
    /\ UNCHANGED notConversation

\* time passes; a timer that is due fires before more time passes
TimePasses ==
    /\ \E r \in Ask : timers[r] = "armed"
    /\ \A r \in Ask : timers[r] = "armed" => age[r] < Timeout
    /\ age' = [r \in Ask |-> IF timers[r] = "armed" THEN age[r] + 1 ELSE age[r]]
    /\ UNCHANGED <<submitting, msgs, asks, timers>>
    /\ UNCHANGED notConversation

\* the callback of setTimeout: the message is marked error in the list it is
\* still in, setSubmitting(false)
TimerFires(r) ==
    /\ timers[r] = "armed"
    /\ age[r] = Timeout
    /\ timers' = [timers EXCEPT ![r] = "fired"]
    /\ msgs' = [msgs EXCEPT ![r] = IF @ = "destroyed" THEN @ ELSE "error"]
    /\ submitting' = FALSE
    /\ UNCHANGED <<asks, age>>
    /\ UNCHANGED notConversation

\* conversations.ask resolves: without a reply the message is marked error;
\* finally setSubmitting(false) and clearTimeout
AskResolves(r, reply) ==
    /\ asks[r] = "flight"
    /\ asks' = [asks EXCEPT ![r] = IF reply THEN "replied" ELSE "noReply"]
    /\ msgs' = [msgs EXCEPT ![r] = IF reply \/ @ = "destroyed" THEN @ ELSE "error"]
    /\ submitting' = FALSE
    /\ timers' = ClearTimeout(r)
    /\ UNCHANGED age
    /\ UNCHANGED notConversation

\* conversations.ask rejects: only the finally runs
AskRejects(r) ==
    /\ asks[r] = "flight"
    /\ asks' = [asks EXCEPT ![r] = "rejected"]
    /\ submitting' = FALSE
    /\ timers' = ClearTimeout(r)
    /\ UNCHANGED <<msgs, age>>
    /\ UNCHANGED notConversation

NextConversation ==
    \/ Submit
    \/ \E m \in Ask : Resend(m)
    \/ TimePasses
    \/ \E r \in Ask : TimerFires(r)
    \/ \E r \in Ask, reply \in BOOLEAN : AskResolves(r, reply)
    \/ \E r \in Ask : AskRejects(r)

\* time passes and the event loop runs the timers that are due
FairWatchdog ==
    /\ WF_vars(TimePasses)
    /\ WF_vars(\E r \in Ask : TimerFires(r))

(***************************************************************************)
(* The login form                                                          *)
(*                                                                         *)
(* A URL is its origin, the segments of its path and the value of its code *)
(* parameter ("" when it has none); as a string it is the origin followed  *)
(* by the segments and the query.  The endpoint is an origin.              *)
(***************************************************************************)
WEB_API_URL == "https://enjoy.bot"

Origin == {WEB_API_URL, "https://custom.example", "https://other.example"}

ApiUrl == {WEB_API_URL, "https://custom.example"}

Url ==
    [origin : Origin,
     path : {<<"sessions", "mixin">>, <<"sessions">>},
     code : {"", "c1"}]

\* the url as a string, piece by piece
Text(u) == <<u.origin>> \o u.path \o <<u.code>>

\* url.startsWith(endpoint)
StartsWith(u, e) ==
    Len(Text(u)) >= Len(<<e>>) /\ SubSeq(Text(u), 1, Len(<<e>>)) = <<e>>

\* new URL(url).pathname.split("/")[2]: the second segment, "" for undefined
Provider(u) == IF Len(u.path) >= 2 THEN u.path[2] ELSE ""

\* new URL(url).searchParams.get("code"), "" for null
Code(u) == u.code

InitLogin ==
    /\ endpoint = WEB_API_URL
    /\ loaded = FALSE
    /\ view = "none"
    /\ auths = <<>>
    /\ user = "none"
    /\ toasts = "none"

\* EnjoyApp.app.apiUrl() resolves: setEndpoint(url); when the endpoint
\* changes the effect's cleanup removes the view
ApiUrlResolved(e) ==
    /\ ~loaded
    /\ loaded' = TRUE
    /\ endpoint' = e
    /\ view' = IF e # endpoint THEN "none" ELSE view
    /\ UNCHANGED <<auths, user, toasts>>
    /\ UNCHANGED notLogin

\* handleMixinLogin: view.load(endpoint/sessions/new?provider=mixin)
HandleMixinLogin ==
    /\ view # "shown"
    /\ view' = "shown"
    /\ UNCHANGED <<endpoint, loaded, auths, user, toasts>>
    /\ UNCHANGED notLogin

\* onViewState with an error: toast, view.hide(), return
ViewError ==
    /\ view = "shown"
    /\ toasts' = "error"
    /\ view' = "hidden"
    /\ UNCHANGED <<endpoint, loaded, auths, user>>
    /\ UNCHANGED notLogin

\* onViewState with state "will-navigate": a url that does not start with the
\* endpoint gets the invalidRedirectUrl toast and view.hide(), and the
\* handler goes on; with a provider and a code webApi.auth is called, without
\* them the failedToLogin toast is shown and the view hidden
WillNavigate(u) ==
    /\ view = "shown"
    /\ IF Provider(u) # "" /\ Code(u) # ""
       THEN /\ Len(auths) < MaxAuths
            /\ auths' = Append(auths, [url |-> u, endpoint |-> endpoint, st |-> "flight"])
            /\ toasts' = IF StartsWith(u, endpoint) THEN toasts ELSE "invalidRedirectUrl"
            /\ view' = IF StartsWith(u, endpoint) THEN view ELSE "hidden"
       ELSE /\ toasts' = "failedToLogin"
            /\ view' = "hidden"
            /\ UNCHANGED auths
    /\ UNCHANGED <<endpoint, loaded, user>>
    /\ UNCHANGED notLogin

\* webApi.auth resolves: login(user), finally view.hide()
AuthResolves(k) ==
    /\ k \in 1..Len(auths)
    /\ auths[k].st = "flight"
    /\ auths' = [auths EXCEPT ![k].st = "ok"]
    /\ user' = auths[k].url.origin
    /\ view' = IF view = "none" THEN view ELSE "hidden"
    /\ UNCHANGED <<endpoint, loaded, toasts>>
    /\ UNCHANGED notLogin

\* webApi.auth rejects: finally view.hide()
AuthRejects(k) ==
    /\ k \in 1..Len(auths)
    /\ auths[k].st = "flight"
    /\ auths' = [auths EXCEPT ![k].st = "failed"]
    /\ view' = IF view = "none" THEN view ELSE "hidden"
    /\ UNCHANGED <<endpoint, loaded, user, toasts>>
    /\ UNCHANGED notLogin

NextLogin ==
    \/ \E e \in ApiUrl : ApiUrlResolved(e)
    \/ HandleMixinLogin
    \/ ViewError
    \/ \E u \in Url : WillNavigate(u)
    \/ \E k \in 1..MaxAuths : AuthResolves(k)
    \/ \E k \in 1..MaxAuths : AuthRejects(k)

Init ==
    InitTranscription /\ InitLibrary /\ InitRecording /\ InitSync /\ InitDownload /\ InitAssess
    /\ InitRegistry /\ InitTable /\ InitConversation
    /\ InitLogin

SpecSync == Init /\ [][NextSyncStep]_vars

SpecDownload == Init /\ [][NextDownload]_vars

SpecAssess == Init /\ [][NextAssess]_vars

SpecLogin == Init /\ [][NextLogin]_vars

SpecConversation == Init /\ [][NextConversation]_vars

SpecWatchdog == SpecConversation /\ FairWatchdog

SpecEvents == Init /\ [][NextEvents]_vars

SpecTable == Init /\ [][NextTable]_vars

SpecRegistry == Init /\ [][NextRegistry]_vars

SpecBackground == Init /\ [][NextBackground]_vars /\ FairBackground

SpecIngest == Init /\ [][NextLibrary]_vars

SpecRecording == Init /\ [][NextRecording]_vars

SpecTranscription == Init /\ [][NextTranscription]_vars

SpecRestart == Init /\ [][NextRestart]_vars


(***************************************************************************)
(* Claims about the Transcription state machine                            *)
(***************************************************************************)

\* C1: for one Transcription record, under every interleaving of process()
\* calls, at most one speech-to-text invocation is in flight at any time.
C1_AtMostOneInFlight == InFlight <= 1

C3_OnlyAllowedTransitions ==
    [][/\ state' # state /\ state # "absent" =>
            <<state, state'>> \in {<<"pending", "processing">>,
                                   <<"processing", "finished">>,
                                   <<"processing", "pending">>,
                                   <<"finished", "processing">>}
       /\ (state = "finished" /\ state' = "processing") =>
            \E c \in Call : /\ calls[c].pc = "lookup" /\ calls'[c].pc = "whisper"
                             /\ calls[c].force
       /\ \A c \in Call :
            (state = "finished" /\ calls[c].pc = "lookup" /\ ~calls[c].force
                /\ calls'[c].pc # "lookup") => state' = "finished"]_vars


(***************************************************************************)
(* Claims about ingestion                                                  *)
(***************************************************************************)

\* C4: an ingest of content whose hash already has a row of that kind fails
\* with the duplicate error, leaves the rows as they are, and leaves every
\* existing asset's stored file as it was.
C4_DuplicateIngestChangesNothing ==
    [][\A t \in Ing :
         (/\ ing[t].pc = "saving" /\ ing'[t].pc # "saving" /\ ing[t].known
          /\ rows[<<KindOf(ing[t].ext), ing[t].hash>>] # "none")
         => /\ ing'[t].pc = "failed" /\ ing'[t].error = "duplicate"
            /\ rows' = rows
            /\ \A r \in Row :
                 rows[r] # "none" =>
                    files'[FilePath(r[1], r[2])] = files[FilePath(r[1], r[2])]]_vars


(***************************************************************************)
(* Claims about the recording counters                                     *)
(***************************************************************************)

\* C5: in every quiescent state, for the Audio and for the Video asset,
\* recordingsCount is the number of live Recording rows targeting it and
\* recordingsDuration the sum of their durations.
C5_CountersMatchLiveRecordings ==
    Quiescent =>
        \A k \in Kind :
            /\ recordingsCount[k] = Cardinality(LiveRecs(k))
            /\ recordingsDuration[k] = SumDuration(LiveRecs(k))


(***************************************************************************)
(* Claims about upload and sync                                            *)
(***************************************************************************)

\* C6: isSynced is syncedAt non-null and syncedAt >= updatedAt; right after any
\* mutation of the asset (edit, counter change, write of uploadedAt) isSynced
\* is false, and it stays false until a sync completes successfully.
C6_MutationInvalidatesSync ==
    /\ [](IsSynced <=> (syncedAt # 0 /\ syncedAt >= updatedAt))
    /\ [][(name' # name \/ uploadedAt' # uploadedAt) => ~IsSynced']_vars
    /\ [][(~IsSynced /\ IsSynced') =>
            \E c \in SyncCall : sy[c].meta = "flight" /\ sy'[c].meta = "ok"]_vars

\* C7: metadata is pushed only after the blob upload has completed
\* successfully, so syncedAt non-null implies uploadedAt non-null.
C7_SyncOnlyAfterUpload ==
    /\ \A c \in SyncCall : sy[c].meta \in {"flight", "ok", "failed"} => IsUploaded
    /\ syncedAt # 0 => uploadedAt # 0

\* C8: a non-forced upload of an uploaded asset issues no put and changes
\* nothing; with non-forced upload and sync calls only, the put succeeds at
\* most once; a forced upload always issues the put.
C8_AtMostOneSuccessfulPut ==
    /\ []((\A c \in SyncCall : ~sy[c].force) => OkPuts <= 1)
    /\ [][\A c \in SyncCall :
            (sy[c].op = "none" /\ sy'[c].op = "upload") =>
                IF sy'[c].force \/ ~IsUploaded
                THEN sy'[c].put = "flight"
                ELSE sy'[c].put = "none" /\ UNCHANGED <<updatedAt, syncedAt, uploadedAt>>]_vars

\* C9: when the put reports non-success or the transport fails, upload fails
\* with an error and uploadedAt is unchanged, so that a later upload call on
\* the still not uploaded asset issues the put again.
C9_FailedUploadIsRetryable ==
    /\ [][\A c \in SyncCall :
            (sy[c].put = "flight" /\ sy'[c].put = "failed") =>
                /\ uploadedAt' = uploadedAt
                /\ sy[c].op = "upload" => sy'[c].res = "error"]_vars
    /\ [][\A c \in SyncCall :
            (sy[c].op = "none" /\ sy'[c].op = "upload" /\ ~IsUploaded) =>
                sy'[c].put = "flight"]_vars

\* C9 witness: the upload started by the creation's sync failed, the asset is
\* still not uploaded, and a later upload call has issued the put again
C9_Witness ==
    \E c, d \in SyncCall :
        /\ c < d
        /\ sy[c].put = "failed"
        /\ uploadedAt = 0
        /\ sy[d].op = "upload" /\ sy[d].put = "flight" /\ sy[d].at > sy[c].done


(***************************************************************************)
(* Claims about the Downloader                                             *)
(***************************************************************************)

\* C10: when cancel(name) runs while a transfer named name is progressing
\* (every other transfer of that name has ended), or cancelAll() runs, that
\* transfer is aborted, also when older finished transfers with the same
\* filename are still in tasks; and when the
\* terminal event of a cancelled transfer has been handled, no file is at its
\* save path and its download call has resolved to no file.
C10_CancelAbortsTransfer ==
    /\ [][\A i \in Dl :
            ( /\ req = dls[i].name
              /\ req' = "none"
              /\ items[i].state = "progressing"
              /\ \A j \in Dl \ {i} :
                    dls[j].name = dls[i].name =>
                        items[j].state = "absent" \/ items[j].done )
            => items'[i].state = "cancelled"]_vars
    /\ [][\A i \in Dl :
            (req = "all" /\ req' = "none" /\ items[i].state = "progressing")
            => items'[i].state = "cancelled"]_vars
    /\ [][\A i \in Dl :
            (items[i].state = "cancelled" /\ ~items[i].done /\ items'[i].done)
            => disk'[dls[i].name] = "absent" /\ dls'[i].result = "undefined"]_vars


\* C11: a download call resolves with the outcome of its own transfer: with
\* its save path exactly when that transfer completed, with no file when that
\* transfer was interrupted or cancelled, never on another transfer's events.
C11_ResolvesWithOwnTransfer ==
    \A c \in Dl :
        /\ dls[c].result = "undefined" => items[c].state \in {"interrupted", "cancelled"}
        /\ dls[c].result \in FileName =>
              dls[c].result = dls[c].name /\ items[c].state = "completed"

\* C12: once a download has resolved to no file because its transfer was
\* interrupted, no file is at that transfer's save path.
C12_InterruptedLeavesNoFile ==
    \A c \in Dl :
        (dls[c].result = "undefined" /\ items[c].state = "interrupted")
            => disk[dls[c].name] = "absent"

\* C13: cancel(name) with no tracked transfer named name in state progressing
\* changes no item, file, promise or task, and cancel(name) applied twice
\* gives the same items as cancel(name) applied once.
C13_CancelIsNoOpAndIdempotent ==
    /\ [](\A n \in FileName :
            AfterCancel(AfterCancel(items, n), n) = AfterCancel(items, n))
    /\ [][(/\ req \in FileName
           /\ req' = "none"
           /\ ~\E k \in 1..Len(tasks) :
                  dls[tasks[k]].name = req /\ items[tasks[k]].state = "progressing")
          => UNCHANGED <<dls, items, tasks, disk>>]_vars

\* C13 witness: cancel(name) has run and replied while the tracked transfers
\* named name were all completed or interrupted
C13_Witness ==
    /\ ack \in FileName
    /\ \E k \in 1..Len(tasks) : dls[tasks[k]].name = ack
    /\ \A k \in 1..Len(tasks) :
          dls[tasks[k]].name = ack => items[tasks[k]].state \in {"completed", "interrupted"}


(***************************************************************************)
(* Claims about ids, destination paths and routing                         *)
(***************************************************************************)

\* C14: the id a row gets at creation is the version 5 id of (user id, md5),
\* never the random default, so rows of one user's library with the same md5
\* have the same id whatever the extension, the kind or the random draw.
C14_IdIsFunctionOfUserAndHash ==
    /\ [][\A r \in Row :
            (rows[r] = "none" /\ rows'[r] # "none") =>
                ids'[r] = UuidV5(userId, r[2]) /\ ids'[r].version # 4]_vars
    /\ [](\A r1, r2 \in Row :
            (rows[r1] # "none" /\ rows[r2] # "none" /\ r1[2] = r2[2]) =>
                ids[r1] = ids[r2])

\* C14 witness: the same content was created as an Audio and as a Video by the
\* same user; both rows have the same version 5 id
C14_Witness ==
    /\ rows[<<"Audio", "abc123">>] # "none"
    /\ rows[<<"Video", "abc123">>] # "none"
    /\ ids[<<"Audio", "abc123">>] = ids[<<"Video", "abc123">>]
    /\ ids[<<"Audio", "abc123">>] = UuidV5(userId, "abc123")

\* C15: an ingest copies to the path of its own kind, md5 and extension and
\* changes no other path, and the file of an existing asset changes only when
\* that asset is destroyed.
C15_IngestTouchesOwnPathOnly ==
    /\ [][\A t \in Ing :
            (ing[t].pc = "free" /\ ing'[t].pc = "saving") =>
                /\ files'[<<ing'[t].kind, ing'[t].hash, ing'[t].ext>>] = "ok"
                /\ \A p \in Path :
                      files'[p] # files[p] =>
                          p = <<ing'[t].kind, ing'[t].hash, ing'[t].ext>>]_vars
    /\ [][\A t \in Ing :
            (ing[t].pc = "saving" /\ ing'[t].pc # "saving") =>
                \A p \in Path :
                    files'[p] # files[p] =>
                        p = <<ing[t].kind, ing[t].hash, ing[t].ext>>]_vars
    /\ [][\A p \in Path :
            (files'[p] # files[p] /\ rows[<<p[1], p[2]>>] # "none") =>
                rows'[<<p[1], p[2]>>] = "none"]_vars

\* C16: for every extension the Audio and the Video entry point end at the
\* same class, the one the extension belongs to, after at most one hand-over,
\* or both refuse the file; a refusal creates no row and copies no file; the
\* hand-overs never go on for ever.
C16_RoutingIndependentOfEntry ==
    /\ [](\A e \in Ext :
            LET a == Route("Audio", e, 0)
                v == Route("Video", e, 0)
            IN  /\ a.kind = v.kind
                /\ a.kind # "loop"
                /\ a.hops <= 1 /\ v.hops <= 1
                /\ a.kind = "Audio" <=> e \in AudioFormats
                /\ a.kind = "Video" <=> e \in VideoFormats)
    /\ [][\A t \in Ing :
            (ing[t].pc = "free" /\ ing'[t].error = "fileNotSupported") =>
                rows' = rows /\ files' = files]_vars
    /\ [][\A t \in Ing :
            (ing[t].pc = "free" /\ ing'[t].pc = "saving") =>
                /\ ing'[t].kind = Route("Audio", ing'[t].ext, 0).kind
                /\ ing'[t].kind = Route("Video", ing'[t].ext, 0).kind]_vars

\* C16 witness: an mp3 handed to the Video entry point has been created as an
\* Audio
C16_Witness ==
    \E t \in Ing :
        /\ ing[t].pc = "created"
        /\ ing[t].entry = "Video"
        /\ ing[t].kind = "Audio"
        /\ ing[t].ext \in AudioFormats
        /\ rows[<<"Audio", ing[t].hash>>] = ing[t].ext


(***************************************************************************)
(* Claims about the background tasks and the re-entry policy               *)
(***************************************************************************)

C18_ReentryPolicy ==
    [][\A c \in Call :
         (calls[c].kind = "transcribe" /\ calls'[c] # calls[c]) =>
            CASE calls[c].pc = "loaded" /\ instState[c] = "pending" ->
                     /\ calls'[c].pc = "lookup" /\ ~calls'[c].force
                     /\ sttCalls' = sttCalls
              [] calls[c].pc = "loaded" /\ instState[c] = "finished" ->
                     /\ calls'[c].pc = "lookup" /\ calls'[c].force
                     /\ sttCalls' = sttCalls
              [] calls[c].pc = "loaded" /\ instState[c] = "processing" ->
                     /\ calls'[c].pc = "ended"
                     /\ sttCalls' = sttCalls /\ state' = state
              [] calls[c].pc = "lookup" ->
                     /\ calls'[c].pc = "whisper" /\ calls'[c].force = calls[c].force
                     /\ sttCalls' = sttCalls + 1
              [] calls[c].pc = "whisper" ->
                     \/ calls'[c].pc = "saved" /\ trResult' = c /\ state' = "finished"
                     \/ calls'[c].pc = "failed" /\ trResult' = trResult
              [] OTHER -> calls'[c].pc \notin {"loaded", "lookup", "whisper"}
      ]_vars

\* C18 witness: a transcribe() on a finished record ran a forced attempt that
\* invoked the collaborator again and stored its result
C18_Witness ==
    \E c \in Call :
       /\ calls[c].kind = "transcribe" /\ calls[c].force
       /\ calls[c].pc \in {"saved", "syncing", "ended"}
       /\ trResult = c
       /\ sttCalls >= 2

\* C19: sync() on a Transcription that is not finished calls nothing and
\* leaves syncedAt as it is, and syncedAt is written only while the state of
\* the Transcription is finished.
C19_SyncOnlyWhileFinished ==
    /\ [][\A c \in Call :
            (calls[c].pc = "saved" /\ instState[calls[c].inst] # "finished"
               /\ calls'[c] # calls[c]) =>
                  calls'[c].pc = "ended" /\ trSyncedAt' = trSyncedAt]_vars
    /\ [][trSyncedAt' # trSyncedAt => state = "finished"]_vars

\* C20: a find-or-create or process request with a targetType other than
\* Audio and Video fails with the invalid-target-type error, creates no row,
\* changes no row's state and invokes no speech-to-text call.
C20_InvalidTargetTypeRejected ==
    [][\A c \in Call :
         (calls[c].pc = "free" /\ calls'[c].pc # "free"
            /\ calls'[c].targetType = "Other") =>
               /\ calls'[c].pc = "invalidTargetType"
               /\ state' = state
               /\ instState' = instState
               /\ sttCalls' = sttCalls
      ]_vars


(***************************************************************************)
(* Claims about failed ingests and the files of live assets                *)
(***************************************************************************)

\* C27: an ingest that fails because the source is unreadable, the copy fails
\* or the readability check after the copy fails creates no row and leaves no
\* file of its own, partial or whole, at the destination.
C27_FailedIngestLeavesNoFile ==
    [][\A t \in Ing :
         (/\ ing[t].pc = "free" /\ ing'[t].pc = "failed"
          /\ ing'[t].error \in {"fileNotFound", "failedToCopyFile"}) =>
             /\ rows' = rows
             /\ \A p \in Path : files'[p] # files[p] => files'[p] = "absent"
      ]_vars

\* C29: in every reachable state every live Audio or Video row has its file
\* present, whole, at the path of its kind, md5 and extension.
C29_LiveRowHasItsFile ==
    \A r \in Row : rows[r] # "none" => files[FilePath(r[1], r[2])] = "ok"


(***************************************************************************)
(* Claims about failures and restarts of the transcription pipeline        *)
(***************************************************************************)

\* C25: a failure inside an explicitly requested process or upload reaches
\* the caller: process() rolls the row back to pending and re-raises, and the
\* process request and the upload request report the failure to the requester.
C25_ExplicitFailureReachesCaller ==
    /\ [][\A c \in Call :
            (calls[c].pc = "whisper" /\ calls'[c].pc = "failed") =>
                state' = "pending"]_vars
    /\ [][\A c \in Call :
            (/\ calls[c].kind = "process"
             /\ calls[c].pc = "whisper" /\ calls'[c].pc = "failed") =>
                calls'[c].reply = "error"]_vars
    /\ [][\A c \in SyncCall :
            (/\ sy[c].op = "upload"
             /\ sy[c].put = "flight" /\ sy'[c].put = "failed") =>
                sy'[c].res = "error"]_vars

\* C28: when the sync attempt started after a Transcription became finished
\* fails, the attempt is not failed: state, engine/model/result stay as
\* stored and process() reports no error.
C28_SyncFailureKeepsFinished ==
    [][\A c \in Call :
         (/\ calls[c].pc = "syncing"
          /\ calls'[c].pc \notin {"syncing", "ended", "free"}) =>
             /\ calls'[c].pc = "syncFailed"
             /\ state' = state
             /\ instState' = instState
             /\ trResult' = trResult
             /\ trSyncedAt' = trSyncedAt
      ]_vars

\* C28 witness: the sync of a finished attempt failed and the row is finished
\* with that attempt's result
C28_Witness ==
    \E c \in Call :
       /\ calls[c].pc = "syncFailed"
       /\ state = "finished"
       /\ trResult = c
       /\ trSyncedAt = 0

\* the row is processing and nothing in this run of the application is
\* working on it
Stuck ==
    /\ state = "processing"
    /\ \A c \in Call :
          /\ calls[c].pc \notin {"timer", "lookup", "whisper", "saved", "syncing"}
          /\ calls[c].pc = "loaded" => instState[c] = "processing"

\* C30: after a restart while a Transcription is processing the row stays
\* processing forever: every later process(), transcribe() and find-or-create
\* returns without starting an attempt and nothing moves the state.
C30_ProcessingSurvivesRestart ==
    [][Stuck => /\ Stuck'
                /\ sttCalls' = sttCalls
                /\ trResult' = trResult
                /\ \A c \in Call : calls'[c].pc \in {"free", "loaded", "ended",
                                                    "invalidTargetType", "notFound"}
      ]_vars

\* C30 witness: after the restart a forced process request, a transcribe()
\* and a find-or-create request have returned and the row is still processing
C30_Witness ==
    /\ Stuck
    /\ \E c \in Call : calls[c].pc = "ended" /\ calls[c].kind = "process" /\ calls[c].force
    /\ \E c \in Call : calls[c].pc = "ended" /\ calls[c].kind = "transcribe"
    /\ \E c \in Call : calls[c].pc = "ended" /\ calls[c].kind = "findOrCreate"


(***************************************************************************)
(* Claims about Recording.assess                                           *)
(***************************************************************************)

\* C23: after any interleaving of assess() calls on one Recording at most one
\* PronunciationAssessment exists for it, and a call made when one exists
\* returns it and requests no speech token and no assessment.
C23_AtMostOneAssessment ==
    /\ [](assessments <= 1)
    /\ [][\A c \in AssessCall :
            (assessCalls[c].pc = "find" /\ assessCalls'[c].pc # "find"
               /\ assessments > 0) =>
                  /\ assessCalls'[c] = [pc |-> "done", ret |-> "existing"]
                  /\ assessments' = assessments
                  /\ speechTokens' = speechTokens
                  /\ sdkCalls' = sdkCalls]_vars


(***************************************************************************)
(* Claims about the handlers, the hooks and the domain events              *)
(***************************************************************************)

\* C21: destroy of an Audio, Video or Recording removes the row and triggers
\* the removal of its file; the row stays deleted when the removal fails; a
\* deleted row comes back through no operation but a new create; destroy
\* issues no remote call and leaves what the remote service holds unchanged.
C21_DestroyRemovesRowKeepsRemote ==
    /\ [][(/\ regModel \in {"Audio", "Video", "Recording"}
           /\ out'.op = "destroy" /\ out'.notification # "notFound"
           /\ out' # out) =>
              /\ regModel' = "none"
              /\ out'.cleanup \in {"removed", "failed"}
              /\ out'.cleanup = "removed" => regFile' = "absent"
              /\ remote' = remote
              /\ bg' = bg]_vars
    /\ [][(regModel = "none" /\ regModel' # "none") => out'.op = "create"]_vars

\* C21 witness: a synced asset was destroyed, its file could not be removed,
\* the row is gone and the remote copies are there
C21_Witness ==
    /\ regModel = "none"
    /\ out.op = "destroy" /\ out.cleanup = "failed"
    /\ regFile = "present"
    /\ remote.blob /\ remote.meta

\* C22: update and destroy on an id without a row end in the not-found error
\* and change no record and no file; update on an existing id changes name and
\* description only.
C22_NotFoundAndPartialUpdate ==
    /\ [][(/\ regModel \notin {"Audio", "Video"}
           /\ out'.op \in {"update", "destroy"} /\ out' # out
           /\ regModel' = regModel) =>
              /\ out'.notification = "notFound"
              /\ out'.result # "TypeError"
              /\ reg' = reg /\ regFile' = regFile]_vars
    /\ [][(/\ regModel \in {"Audio", "Video"}
           /\ out'.op = "update" /\ out' # out) =>
              /\ regModel' = regModel /\ regFile' = regFile
              /\ reg' = [reg EXCEPT !.name = reg'.name,
                                    !.description = reg'.description]]_vars

\* C24: a failure of a task started by the creation of an asset or Recording
\* leaves the creating request's outcome, the row and its file as they are
\* and is handled, never left as an unhandled rejection.
C24_BackgroundFailureIsContained ==
    [][(/\ bg.model \in {"Audio", "Video", "Recording"}
        /\ \E f \in {"put", "meta", "stt"} :
              bg[f] = "flight" /\ bg'[f] = "failed") =>
           /\ out' = out
           /\ regModel' = regModel /\ reg' = reg /\ regFile' = regFile
           /\ unhandled' = unhandled
      ]_vars

\* C26: every committed create, update and destroy of an Audio, Video,
\* Recording or Transcription row sends exactly one event with that model, id
\* and action when there is a window, and none, failing nothing, without one.
C26_OneEventPerCommit ==
    [][LET a == CASE regModel = "none" /\ regModel' # "none" -> "create"
                  [] regModel # "none" /\ regModel' = "none" -> "destroy"
                  [] regModel # "none" /\ reg' # reg -> "update"
                  [] OTHER -> "none"
           m == IF a = "create" THEN regModel' ELSE regModel
       IN a # "none" =>
             /\ events' = IF win
                          THEN Append(events, [model |-> m, id |-> reg.id, action |-> a])
                          ELSE events
             /\ unhandled' = unhandled
      ]_vars


(***************************************************************************)
(* Claims about staleness after a sync                                     *)
(***************************************************************************)

\* C31: the write of syncedAt by a successful sync leaves the asset synced,
\* and so does the write of uploadedAt by the upload that sync() started: an
\* asset that is not mutated stays synced once it is.
C31_SyncLeavesAssetSynced ==
    /\ [][syncedAt' # syncedAt => IsSynced']_vars
    /\ [][(/\ IsSynced /\ name' = name
           /\ \E c \in SyncCall :
                 sy[c].op = "sync" /\ sy[c].put = "flight" /\ sy'[c].put = "ok") =>
              IsSynced']_vars


(***************************************************************************)
(* Claims about the atomicity and the sign of the counters                 *)
(***************************************************************************)

\* C33: a Recording's row and its parent's counters change as one unit: in
\* every state the parent's recordingsCount is the number of its live
\* Recordings and recordingsDuration is the sum of their durations.
C33_RowAndCountersAreOneUnit ==
    \A k \in CountedTargets :
       /\ recordingsCount[k] = Cardinality(LiveRecs(k))
       /\ recordingsDuration[k] = SumDuration(LiveRecs(k))

\* C34: recordingsCount and recordingsDuration are never negative.
C34_CountersNeverNegative ==
    \A k \in Kind : recordingsCount[k] >= 0 /\ recordingsDuration[k] >= 0


(***************************************************************************)
(* Claims about the transcriptions table                                   *)
(***************************************************************************)

\* C32: after any interleaving of findOrCreate calls there is at most one
\* Transcription row per (targetId, targetType) and at most one per target
\* md5, and a row that is created is pending and has its target's md5.
C32_OneTranscriptionPerTarget ==
    /\ [](\A r1 \in trRows, r2 \in trRows :
             /\ (r1.targetId = r2.targetId /\ r1.targetType = r2.targetType) => r1.id = r2.id
             /\ r1.targetMd5 = r2.targetMd5 => r1.id = r2.id)
    /\ [][\A r \in trRows' :
            (\A q \in trRows : q.id # r.id) =>
                /\ r.state = "pending"
                /\ r.targetMd5 = finds[r.id].target[2]
                /\ r.targetType = finds[r.id].target[1]]_vars

\* C32 witness: two calls for the same target both found nothing; one created
\* the row, the other's INSERT was refused
C32_Witness ==
    \E c \in FindCall, d \in FindCall :
       /\ c # d
       /\ finds[c].target = finds[d].target
       /\ finds[c].pc = "created" /\ finds[d].pc = "uniqueError"
       /\ Cardinality(trRows) = 1


(***************************************************************************)
(* Claims about the downloader's registry and events                       *)
(***************************************************************************)

\* C35: every started transfer is exactly once in tasks and the dashboard
\* snapshot has one entry per started transfer, however many downloads were
\* started before it.
C35_EachTransferOnceInRegistry ==
    /\ \A i \in Dl :
          items[i].state # "absent" =>
             Cardinality({k \in 1..Len(tasks) : tasks[k] = i}) = 1
    /\ Len(Dashboard) = Cardinality({i \in Dl : items[i].state # "absent"})

\* C36: the states sent for a transfer are progress events followed by at
\* most one terminal event, and nothing is sent after the terminal event.
C36_OneTerminalEventPerTransfer ==
    \A i \in Dl :
       \A k \in 1..Len(sent[i]) :
          k < Len(sent[i]) => sent[i][k] = "progressing"


(***************************************************************************)
(* Claims about the conversation page                                      *)
(***************************************************************************)

\* C37: a request whose ask has not settled after five minutes gets its
\* message marked error and the submitting flag cleared while the ask stays
\* in flight; once the ask has settled its timer is cleared and the message
\* is not marked error afterwards; every request in flight settles or has
\* its timer fire.
C37_WatchdogMarksErrorOnce ==
    /\ [][\A r \in Ask :
            (timers[r] = "armed" /\ timers'[r] = "fired") =>
               /\ age[r] = Timeout
               /\ msgs[r] = "pending" /\ msgs'[r] = "error"
               /\ ~submitting'
               /\ asks[r] = "flight" /\ asks'[r] = "flight"]_vars
    /\ [](\A r \in Ask : asks[r] \notin {"none", "flight"} => timers[r] # "armed")
    /\ [][\A r \in Ask :
            (asks[r] \notin {"none", "flight"} /\ msgs[r] # "error") =>
               msgs'[r] # "error"]_vars
    /\ []<>(\A r \in Ask : asks[r] = "flight" => timers[r] = "fired")

\* C37 witness: a timer has fired with its ask still in flight, and the timer
\* of another request was cleared when its ask settled
C37_Witness ==
    \E r \in Ask, q \in Ask :
       /\ timers[r] = "fired" /\ asks[r] = "flight" /\ msgs[r] = "error"
       /\ timers[q] = "cleared" /\ asks[q] = "replied"

\* C38: at most one request of the page is pending, and while the page is
\* submitting no submit or resend adds a message or sends an ask.
C38_AtMostOnePendingAsk ==
    /\ [](Cardinality({r \in Ask : asks[r] = "flight" /\ msgs[r] = "pending"}) <= 1)
    /\ [][submitting =>
            \A r \in Ask : asks[r] = "none" => (asks'[r] = "none" /\ msgs'[r] = "none")]_vars


(***************************************************************************)
(* Claims about the login form                                             *)
(***************************************************************************)

\* C39: webApi.auth is called only for a navigation whose url starts with
\* the endpoint, and a user is logged in only through such a call.
C39_AuthOnlyForEndpointUrl ==
    /\ \A k \in 1..Len(auths) : StartsWith(auths[k].url, auths[k].endpoint)
    /\ user # "none" =>
          \E k \in 1..Len(auths) :
             /\ auths[k].st = "ok"
             /\ StartsWith(auths[k].url, auths[k].endpoint)

====
